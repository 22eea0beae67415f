-------------------------- MODULE ProxyServer_proofs --------------------------
(***************************************************************************)
(* What holds of ProxyServer for any number of servers, names, orders and  *)
(* agents, every interleaving and any failure of requests.                 *)
(***************************************************************************)
EXTENDS ProxyServer, SequenceTheorems, TLAPS

Creating == {"client", "create", "read", "write", "rows"}

PCs == Creating \cup {"idle", "user", "list", "unlist", "each", "drop"}

Errand ==
    [kind : {"none", "deliver", "reset", "delete"}, pc : PCs,
     order : Order \cup {Nobody}, name : Name \cup {Nobody}, hosts : Seq(Host),
     clients : SUBSET Host, down : SUBSET Host, given : Name \cup {Nobody},
     tries : Nat, listed : SUBSET Host, unset : SUBSET Host,
     turn : SUBSET Host, answered : BOOLEAN, text : SUBSET Name,
     made : SUBSET ProxyRow, targets : SUBSET (Host \X Name),
     old : SUBSET ProxyRow, pair : (Host \X Name) \cup {Nobody}]

ProxyTypeOK ==
    /\ accounts \in [Host -> SUBSET Name]
    /\ access \in [Host -> SUBSET Name]
    /\ proxies \subseteq ProxyRow
    /\ messages \subseteq touched /\ touched \subseteq Host \X Name
    /\ \A r \in proxies : r.name \in names
    /\ failures \in Nat /\ raced \in BOOLEAN
    /\ errand \in [Agent -> Errand]

-----------------------------------------------------------------------------
(* The inductive invariant.                                                *)

Served(p) == p \in touched \/ p[2] \in accounts[p[1]]
Listed(p) == p \in touched \/ p[2] \in access[p[1]]

(* No request failed and no access list was written over a newer one. *)
Calm == ~raced /\ failures = 0

(* What the program counter of an errand says of its fields; the pair of a *)
(* reset is the last target it took.                                       *)
LocalOK(e) ==
    /\ e.pc \in Creating =>
          /\ e.hosts # <<>> /\ e.name \in Name /\ e.given \in Name
          /\ e.kind \in {"deliver", "reset"}
    /\ e.pc \in Creating \/ e.kind = "reset" => e.order \in Order
    /\ e.pc \notin Creating => e.hosts = <<>>
    /\ e.pc \notin Creating \cup {"drop"} => e.listed = {} /\ e.unset = {} /\ e.made = {}
    /\ e.pc \in {"each", "drop"} => e.kind = "reset"
    /\ e.kind # "reset" => e.old = {}
    /\ e.pc \in Creating \cup {"drop"} => e.targets = {}
    /\ \A p \in e.targets : \E r \in e.old : p = PairOf(r)
    /\ \A m \in e.made, r \in e.old : m.name # r.name
    /\ e.pc \in Creating => \A r \in e.old : r.name # e.name /\ r.name # e.given
    /\ \/ \E r \in e.old : e.pair = PairOf(r)
       \/ \A r \in e.old : PairOf(r) \in e.targets

(* The access lists an errand has written, and those it is about to write. *)
ListsOK(e) ==
    /\ e.pc \in {"client", "create", "rows"} =>
          e.unset = {} /\ \A h \in e.listed : Listed(<<h, e.name>>)
    /\ e.pc = "rows" => Head(e.hosts) \in e.listed
    /\ e.pc \in {"read", "write"} =>
          /\ e.unset = {Head(e.hosts)} /\ e.turn = {Head(e.hosts)}
          /\ Head(e.hosts) \in e.listed
          /\ \A h \in e.listed \ {Head(e.hosts)} : Listed(<<h, e.name>>)

ErrandOK(e) ==
    /\ LocalOK(e)
    /\ e.pc \in {"user", "list", "unlist"} => e.pair \in touched
    /\ e.pc \in {"read", "write", "rows"} /\ e.answered =>
          Served(<<Head(e.hosts), e.given>>)
    /\ Calm => ListsOK(e)
    /\ \A r \in e.old : r.name \in names
    /\ e.pc \in Creating =>
          /\ e.name \in names /\ e.given \in names
          /\ e.given = e.name \/ e.given \in renamed

ProxyInv ==
    /\ ProxyTypeOK
    /\ \A w \in Agent, e \in Errand : errand[w] = e => ErrandOK(e)
    /\ DeliveredIsServed
    /\ DeliveredHasAccess

-----------------------------------------------------------------------------
(* What every step does to the servers and to the history.                 *)

Progress ==
    /\ touched \subseteq touched' /\ names \subseteq names' /\ renamed \subseteq renamed'
    /\ failures' \in Nat /\ (failures' = 0 => failures = 0)
    /\ Calm' => Calm
    /\ \A p \in Host \X Name : Served(p) => Served(p)'
    /\ Calm' => \A p \in Host \X Name : Listed(p) => Listed(p)'

LEMMA HeadType ==
    ASSUME NEW e \in Errand, LocalOK(e), e.pc \in Creating
    PROVE  Head(e.hosts) \in Host /\ e.name \in Name /\ e.given \in Name
BY DEF Errand, LocalOK

(* An errand that does not move stays in order. *)
LEMMA ErrandKept ==
    ASSUME Progress, NEW e \in Errand, ErrandOK(e)
    PROVE  ErrandOK(e)'
<1>1. LocalOK(e) /\ LocalOK(e)' BY DEF ErrandOK, LocalOK, Creating, PairOf
<1>2. e.pc \in Creating => <<Head(e.hosts), e.given>> \in Host \X Name
    BY <1>1, HeadType
<1>3. e.pc \in {"user", "list", "unlist"} => e.pair \in touched'
    BY DEF ErrandOK, Progress
<1>4. e.pc \in {"read", "write", "rows"} /\ e.answered =>
          Served(<<Head(e.hosts), e.given>>)'
    BY <1>2 DEF ErrandOK, Progress, Creating
<1>6. ASSUME Calm' PROVE ListsOK(e)'
    <2>1. ListsOK(e) /\ \A p \in Host \X Name : Listed(p) => Listed(p)'
        BY <1>6 DEF ErrandOK, Progress
    <2>2. e.pc \in Creating => \A h \in e.listed : <<h, e.name>> \in Host \X Name
        BY <1>1, HeadType DEF Errand
    <2> QED BY <2>1, <2>2 DEF ListsOK, Creating
<1>7. /\ \A r \in e.old : r.name \in names'
      /\ e.pc \in Creating =>
            /\ e.name \in names' /\ e.given \in names'
            /\ e.given = e.name \/ e.given \in renamed'
    BY DEF ErrandOK, Progress
<1> QED BY <1>1, <1>3, <1>4, <1>6, <1>7 DEF ErrandOK

(* An errand that moves, and nothing new in the table. *)
LEMMA Moved ==
    ASSUME ProxyInv, Progress, NEW w \in Agent, NEW e \in Errand, ErrandOK(e)',
           errand' = [errand EXCEPT ![w] = e]
    PROVE  /\ errand' \in [Agent -> Errand]
           /\ \A v \in Agent, f \in Errand : errand'[v] = f => ErrandOK(f)'
<1>1. errand \in [Agent -> Errand] BY DEF ProxyInv, ProxyTypeOK
<1>2. ASSUME NEW v \in Agent, NEW f \in Errand, errand'[v] = f PROVE ErrandOK(f)'
    <2>1. CASE v = w
        <3>1. f = e BY <1>1, <1>2, <2>1
        <3> QED BY <3>1
    <2>2. CASE v # w
        <3>1. errand[v] = f BY <1>1, <1>2, <2>2
        <3>2. ErrandOK(f) BY <3>1 DEF ProxyInv
        <3> QED BY <3>2, ErrandKept
    <2> QED BY <2>1, <2>2
<1> QED BY <1>1, <1>2

LEMMA PairType == ASSUME NEW r \in ProxyRow
                  PROVE  /\ PairOf(r) \in Host \X Name
                         /\ PairOf(r)[1] = r.host /\ PairOf(r)[2] = r.name
BY DEF ProxyRow, PairOf

(* Rows that stay keep what they have. *)
LEMMA RowsKept ==
    ASSUME ProxyInv, Progress, proxies' \subseteq proxies
    PROVE  DeliveredIsServed' /\ DeliveredHasAccess'
<1>1. \A r \in proxies' : /\ r \in proxies /\ PairOf(r) \in Host \X Name
                          /\ PairOf(r)[1] = r.host /\ PairOf(r)[2] = r.name
    BY PairType DEF ProxyInv, ProxyTypeOK
<1>2. ASSUME NEW r \in proxies' PROVE PairOf(r) \in touched' \/ r.name \in accounts'[r.host]
    <2>1. Served(PairOf(r)) BY <1>1 DEF ProxyInv, DeliveredIsServed, Served
    <2>2. Served(PairOf(r))' BY <1>1, <2>1 DEF Progress
    <2> QED BY <1>1, <2>2 DEF Served
<1>3. ASSUME Calm', NEW r \in proxies', r.name \notin renamed'
      PROVE  PairOf(r) \in touched' \/ r.name \in access'[r.host]
    <2>1. Calm /\ r.name \notin renamed BY <1>3 DEF Progress
    <2>2. Listed(PairOf(r)) BY <1>1, <2>1 DEF ProxyInv, DeliveredHasAccess, Listed, Calm
    <2>3. Listed(PairOf(r))' BY <1>1, <1>3, <2>2 DEF Progress
    <2> QED BY <1>1, <2>3 DEF Listed
<1>4. DeliveredIsServed' BY <1>2 DEF DeliveredIsServed, PairOf
<1>5. DeliveredHasAccess' BY <1>3 DEF DeliveredHasAccess, PairOf, Calm
<1> QED BY <1>4, <1>5

(* A step that creates no row. *)
LEMMA Step ==
    ASSUME ProxyInv, Progress, NEW w \in Agent, NEW e \in Errand, ErrandOK(e)',
           errand' = [errand EXCEPT ![w] = e],
           proxies' \subseteq proxies,
           accounts' \in [Host -> SUBSET Name], access' \in [Host -> SUBSET Name],
           messages' \subseteq touched', touched' \subseteq Host \X Name,
           raced' \in BOOLEAN
    PROVE  ProxyInv'
<1>1. \A r \in proxies' : r.name \in names' BY DEF ProxyInv, ProxyTypeOK, Progress
<1>2. proxies' \subseteq ProxyRow BY DEF ProxyInv, ProxyTypeOK
<1>3. ProxyTypeOK' BY <1>1, <1>2, Moved DEF ProxyTypeOK, Progress
<1> QED BY <1>3, Moved, RowsKept DEF ProxyInv

(* A request that changes nothing on a server. *)
LEMMA Quiet ==
    ASSUME ProxyInv, UNCHANGED <<accounts, access, touched, raced>>,
           names \subseteq names', renamed \subseteq renamed',
           failures' \in Nat, failures' = 0 => failures = 0
    PROVE  Progress
BY DEF Progress, Served, Listed, Calm

LEMMA AnswerType == ASSUME NEW a \in Answers
                    PROVE  /\ a.ok \in BOOLEAN /\ a.done \in BOOLEAN /\ a.up \in BOOLEAN
                           /\ a.ok => a.done
<1>1. CASE a = [ok |-> TRUE, done |-> TRUE, up |-> TRUE] BY <1>1
<1>2. CASE a \in [ok : {FALSE}, done : BOOLEAN, up : BOOLEAN] BY <1>2
<1> QED BY <1>1, <1>2 DEF Answers

LEMMA FailuresCounted ==
    ASSUME ProxyInv, NEW a \in Answers, Request(a)
    PROVE  failures' \in Nat /\ (failures' = 0 => failures = 0 /\ a.ok /\ a.done)
BY AnswerType DEF ProxyInv, ProxyTypeOK, Request

LEMMA IdleOK == Idle \in Errand /\ ErrandOK(Idle) /\ ErrandOK(Idle)'
<1>1. Idle \in Errand BY DEF Idle, Errand, PCs
<1>2. LocalOK(Idle) /\ LocalOK(Idle)' BY DEF Idle, LocalOK, Creating
<1>3. ListsOK(Idle) /\ ListsOK(Idle)' BY DEF Idle, ListsOK
<1> QED BY <1>1, <1>2, <1>3 DEF ErrandOK, Idle, Creating

LEMMA NextFields ==
    ASSUME NEW e \in Errand, NEW pc \in PCs, NEW name \in Name
    PROVE  [e EXCEPT !.pc = pc, !.given = name, !.tries = 0, !.answered = FALSE,
                     !.text = {}] \in Errand
BY DEF Errand

LEMMA DropFields ==
    ASSUME NEW e \in Errand, NEW pc \in PCs
    PROVE  [e EXCEPT !.pc = pc, !.name = Nobody] \in Errand
BY DEF Errand

(* The next subnet of a delivery whose lists are written, or its end. *)
LEMMA NextOK ==
    ASSUME NEW e \in Errand, e.kind \in {"deliver", "reset"},
           e.name \in Name, e.name \in names', e.order \in Order,
           e.kind # "reset" => e.old = {}, e.targets = {},
           \A m \in e.made, r \in e.old : m.name # r.name,
           \A r \in e.old : r.name # e.name /\ r.name \in names',
           \A r \in e.old : e.old # {} => \E q \in e.old : e.pair = PairOf(q),
           Calm' => e.unset = {} /\ \A h \in e.listed : Listed(<<h, e.name>>)'
    PROVE  NextSubnet(e) \in Errand /\ ErrandOK(NextSubnet(e))'
<1>1. CASE e.hosts # <<>> /\ Head(e.hosts) \notin e.clients \cap e.down
    <2> DEFINE f == NextSubnet(e)
    <2>a. PICK pc \in PCs : pc = IF Head(e.hosts) \in e.clients THEN "create" ELSE "client"
        BY DEF PCs, Creating
    <2>d. PICK name \in Name : name = e.name OBVIOUS
    <2>1. f = [e EXCEPT !.pc = pc, !.given = name, !.tries = 0, !.answered = FALSE,
                        !.text = {}]
        BY <1>1, <2>a, <2>d DEF NextSubnet
    <2>e. [e EXCEPT !.pc = pc, !.given = name, !.tries = 0, !.answered = FALSE,
                    !.text = {}] \in Errand
        BY NextFields
    <2>c. f \in Errand BY <2>1, <2>e
    <2>2. /\ f.pc = pc /\ f.hosts = e.hosts /\ f.name = e.name /\ f.given = e.name
          /\ f.order = e.order /\ f.kind = e.kind /\ f.old = e.old /\ f.made = e.made /\ f.pair = e.pair
          /\ f.targets = e.targets /\ f.unset = e.unset /\ f.listed = e.listed
        BY <2>1, <2>c, <2>d DEF Errand
    <2>b. pc \in {"create", "client"} BY <2>a
    <2> HIDE DEF f
    <2>3. LocalOK(f)' BY <1>1, <2>2, <2>b DEF LocalOK, Creating, PairOf
    <2>4. Calm' => ListsOK(f)' BY <2>2, <2>b DEF ListsOK
    <2>5. ErrandOK(f)' BY <2>2, <2>b, <2>3, <2>4 DEF ErrandOK, Creating
    <2> QED BY <2>c, <2>5 DEF f
<1>4. CASE e.hosts # <<>> /\ Head(e.hosts) \in e.clients \cap e.down
    BY <1>4, IdleOK DEF NextSubnet, GiveUp
<1>2. CASE e.hosts = <<>> /\ e.kind = "reset"
    <2> DEFINE f == NextSubnet(e)
    <2>a. PICK pc \in PCs : pc = "drop" BY DEF PCs
    <2>b. f = [e EXCEPT !.pc = pc, !.name = Nobody] BY <1>2, <2>a DEF NextSubnet
    <2>c. [e EXCEPT !.pc = pc, !.name = Nobody] \in Errand BY DropFields
    <2>1. f = [e EXCEPT !.pc = "drop", !.name = Nobody] /\ f \in Errand
        BY <2>a, <2>b, <2>c
    <2>2. /\ f.pc = "drop" /\ f.hosts = e.hosts
          /\ f.order = e.order /\ f.kind = e.kind /\ f.old = e.old /\ f.made = e.made /\ f.pair = e.pair
          /\ f.targets = e.targets
        BY <2>1 DEF Errand
    <2> HIDE DEF f
    <2>3. LocalOK(f)' BY <1>2, <2>2 DEF LocalOK, Creating, PairOf
    <2>4. ListsOK(f)' BY <2>2 DEF ListsOK
    <2>5. ErrandOK(f)' BY <2>2, <2>3, <2>4 DEF ErrandOK, Creating
    <2> QED BY <2>1, <2>5 DEF f
<1>3. CASE e.hosts = <<>> /\ e.kind # "reset"
    BY <1>3, IdleOK DEF NextSubnet
<1> QED BY <1>1, <1>2, <1>3, <1>4

-----------------------------------------------------------------------------
(* Deliveries.                                                             *)

(* What the invariant says of the errand of an agent. *)
LEMMA ErrandOf ==
    ASSUME ProxyInv, NEW w \in Agent
    PROVE  errand[w] \in Errand /\ ErrandOK(errand[w]) /\ LocalOK(errand[w])
BY DEF ProxyInv, ProxyTypeOK, ErrandOK

LEMMA BeginOK ==
    ASSUME ProxyInv, NEW w \in Agent, NEW e \in Errand, NEW name \in Name,
           NEW hosts \in Deliveries, Begin(w, e, name, hosts),
           e.pc \in {"idle", "each"}, e.kind \in {"deliver", "reset"}, LocalOK(e),
           e.order \in Order,
           e.targets = {}, \A r \in e.old : r.name \in names
    PROVE  ProxyInv'
<1> DEFINE f == [e EXCEPT !.name = name, !.hosts = hosts]
<1>1. hosts \in Seq(Host) BY ProxyServerAssumption
<1>2. /\ f \in Errand /\ f.name = name /\ f.order = e.order /\ f.kind = e.kind /\ f.old = e.old
      /\ f.targets = e.targets /\ f.made = e.made /\ f.pair = e.pair
      /\ f.unset = e.unset /\ f.listed = e.listed
    BY <1>1 DEF Errand
<1>3. e.made = {} /\ e.unset = {} /\ e.listed = {} BY DEF LocalOK, Creating
<1>4. names' = names \cup {name} /\ name \notin names BY DEF Begin
<1> HIDE DEF f
<1>5. \A r \in f.old : r.name # name /\ r.name \in names' BY <1>2, <1>4
<1>6. \A r \in f.old : f.old # {} => \E q \in f.old : f.pair = PairOf(q)
    BY <1>2 DEF LocalOK
<1>7. NextSubnet(f) \in Errand /\ ErrandOK(NextSubnet(f))'
    BY <1>2, <1>3, <1>4, <1>5, <1>6, NextOK DEF LocalOK
<1>8. errand' = [errand EXCEPT ![w] = NextSubnet(f)] BY DEF Begin, SetErrand, f
<1>9. UNCHANGED <<servers, tables, failures, renamed, touched, raced>> BY DEF Begin
<1>10. Progress BY <1>4, <1>9, Quiet DEF servers, ProxyInv, ProxyTypeOK
<1> QED BY <1>7, <1>8, <1>9, <1>10, Step DEF servers, tables, ProxyInv, ProxyTypeOK

LEMMA StartDeliveryOK ==
    ASSUME ProxyInv, NEW w \in Agent, NEW o \in Order, NEW name \in Name,
           NEW hosts \in Deliveries, StartDelivery(w, o, name, hosts)
    PROVE  ProxyInv'
<1>1. PICK i \in Errand : i = Idle BY IdleOK
<1> DEFINE e == [i EXCEPT !.kind = "deliver", !.order = o]
<1>2. /\ e \in Errand /\ e.pc = i.pc /\ e.kind = "deliver" /\ e.targets = i.targets
      /\ e.old = i.old /\ e.made = i.made /\ e.listed = i.listed /\ e.unset = i.unset
      /\ e.hosts = i.hosts /\ e.order = o
    BY DEF Errand
<1>3. /\ i.pc = "idle" /\ i.targets = {} /\ i.old = {} /\ i.made = {} /\ i.listed = {}
      /\ i.unset = {} /\ i.hosts = <<>>
    BY <1>1 DEF Idle
<1>4. Begin(w, e, name, hosts) BY <1>1 DEF StartDelivery
<1> HIDE DEF e
<1>5. LocalOK(e) BY <1>2, <1>3 DEF LocalOK, Creating
<1> QED BY <1>2, <1>3, <1>4, <1>5, BeginOK

LEMMA CreateAgainOK ==
    ASSUME ProxyInv, NEW w \in Agent, NEW name \in Name,
           NEW hosts \in Deliveries, CreateAgain(w, name, hosts)
    PROVE  ProxyInv'
<1> DEFINE e == errand[w]
<1>1. e \in Errand /\ ErrandOK(e) /\ LocalOK(e) BY ErrandOf
<1>2. e.pc = "each" /\ e.targets = {} /\ Begin(w, e, name, hosts) BY DEF CreateAgain
<1> HIDE DEF e
<1>3. e.kind = "reset" /\ e.order \in Order /\ \A r \in e.old : r.name \in names
    BY <1>1, <1>2 DEF LocalOK, ErrandOK
<1> QED BY <1>1, <1>2, <1>3, BeginOK

LEMMA ClientMade ==
    ASSUME NEW e \in Errand, ErrandOK(e)', e.pc = "client"
    PROVE  LET f == [e EXCEPT !.clients = @ \cup {Head(e.hosts)}, !.pc = "create"]
           IN  f \in Errand /\ ErrandOK(f)'
<1>1. LocalOK(e) BY DEF ErrandOK, LocalOK
<1>2. Head(e.hosts) \in Host BY <1>1, HeadType DEF Creating
<1> DEFINE f == [e EXCEPT !.clients = @ \cup {Head(e.hosts)}, !.pc = "create"]
<1>3. /\ f \in Errand /\ f.pc = "create" /\ f.hosts = e.hosts /\ f.name = e.name
      /\ f.given = e.given /\ f.order = e.order /\ f.kind = e.kind /\ f.old = e.old /\ f.made = e.made /\ f.pair = e.pair
      /\ f.targets = e.targets /\ f.unset = e.unset /\ f.listed = e.listed
    BY <1>2 DEF Errand, PCs, Creating
<1> HIDE DEF f
<1>4. LocalOK(f)' BY <1>1, <1>3 DEF LocalOK, Creating, PairOf
<1>5. Calm' => ListsOK(f)' BY <1>3 DEF ListsOK, ErrandOK
<1>6. ErrandOK(f)' BY <1>3, <1>4, <1>5 DEF ErrandOK, Creating
<1> QED BY <1>3, <1>6 DEF f

LEMMA MakeClientOK ==
    ASSUME ProxyInv, NEW w \in Agent, NEW a \in Answers, MakeClient(w, a)
    PROVE  ProxyInv'
<1>1. PICK e \in Errand : e = errand[w] /\ ErrandOK(e) BY ErrandOf
<1>2. failures' \in Nat /\ (failures' = 0 => failures = 0 /\ a.ok)
    BY FailuresCounted DEF MakeClient
<1>3. UNCHANGED <<servers, tables, history>> BY DEF MakeClient
<1>4. Progress BY <1>2, <1>3, Quiet DEF servers, history
<1>5. ErrandOK(e)' BY <1>1, <1>4, ErrandKept
<1>6. e.pc = "client" BY <1>1 DEF MakeClient
<1>7. PICK f \in Errand : ErrandOK(f)' /\ errand' = [errand EXCEPT ![w] = f]
    <2>1. CASE a.ok BY <1>1, <1>5, <1>6, <2>1, ClientMade DEF MakeClient, SetErrand
    <2>2. CASE ~a.ok BY <2>2, IdleOK DEF MakeClient, SetErrand, GiveUp
    <2> QED BY <2>1, <2>2
<1> QED BY <1>3, <1>4, <1>7, Step DEF servers, tables, history, ProxyInv, ProxyTypeOK

LEMMA DownType ==
    ASSUME NEW e \in Errand, Head(e.hosts) \in Host, NEW up \in BOOLEAN
    PROVE  DownAfter(e, up) \in SUBSET Host
BY DEF DownAfter, Errand

LEMMA UserFields ==
    ASSUME NEW e \in Errand, NEW ok \in BOOLEAN, NEW listed \in SUBSET Host,
           NEW unset \in SUBSET Host, NEW down \in SUBSET Host, NEW pc \in PCs
    PROVE  [e EXCEPT !.answered = ok, !.down = down, !.listed = listed, !.unset = unset,
                     !.turn = unset, !.pc = pc] \in Errand
BY DEF Errand

LEMMA UserCreated ==
    ASSUME NEW e \in Errand, ErrandOK(e)', e.pc = "create", NEW ok \in BOOLEAN,
           ok => Served(<<Head(e.hosts), e.given>>)', NEW up \in BOOLEAN
    PROVE  Created(e, ok, up) \in Errand /\ ErrandOK(Created(e, ok, up))'
<1>1. LocalOK(e) BY DEF ErrandOK, LocalOK
<1>2. Head(e.hosts) \in Host BY <1>1, HeadType DEF Creating
<1>3. PICK unset \in SUBSET Host : unset = e.unset \cup ({Head(e.hosts)} \ e.listed)
    BY <1>2 DEF Errand
<1>a. PICK pc \in PCs : pc = IF unset = {} THEN "rows" ELSE "read" BY DEF PCs, Creating
<1>d. PICK down \in SUBSET Host : down = DownAfter(e, up) BY <1>2, DownType
<1>b. PICK listed \in SUBSET Host : listed = e.listed \cup {Head(e.hosts)} BY <1>2 DEF Errand
<1> DEFINE f == [e EXCEPT !.answered = ok, !.down = down, !.listed = listed,
                          !.unset = unset, !.turn = unset, !.pc = pc]
<1>c. f \in Errand BY UserFields
<1>e. f = Created(e, ok, up) BY <1>3, <1>a, <1>d, <1>b DEF Created
<1>4. /\ f \in Errand /\ f.pc = pc
      /\ f.hosts = e.hosts /\ f.name = e.name /\ f.given = e.given
      /\ f.order = e.order /\ f.kind = e.kind /\ f.old = e.old /\ f.made = e.made /\ f.pair = e.pair
      /\ f.targets = e.targets /\ f.unset = unset /\ f.turn = unset
      /\ f.listed = listed /\ f.answered = ok
    BY <1>c DEF Errand
<1> HIDE DEF f
<1>5. LocalOK(f)' BY <1>1, <1>a, <1>4 DEF LocalOK, Creating, PairOf
<1>6. ASSUME Calm' PROVE ListsOK(f)'
    <2>1. e.unset = {} /\ \A h \in e.listed : Listed(<<h, e.name>>)'
        BY <1>6 DEF ErrandOK, ListsOK
    <2>2. unset = {} => f.listed = e.listed /\ Head(e.hosts) \in f.listed
        BY <1>3, <1>b, <1>4
    <2>3. unset # {} => unset = {Head(e.hosts)} BY <1>3, <2>1
    <2> QED BY <1>a, <1>b, <1>4, <2>1, <2>2, <2>3 DEF ListsOK
<1>7. ErrandOK(f)' BY <1>a, <1>4, <1>5, <1>6 DEF ErrandOK, Creating
<1> QED BY <1>4, <1>7, <1>e

LEMMA CreateUserOK ==
    ASSUME ProxyInv, NEW w \in Agent, NEW a \in Answers, CreateUser(w, a)
    PROVE  ProxyInv'
<1>1. PICK e \in Errand : e = errand[w] /\ ErrandOK(e) /\ LocalOK(e) BY ErrandOf
<1>2. e.pc = "create" BY <1>1 DEF CreateUser
<1>3. PICK h \in Host : h = Head(e.hosts) BY <1>1, <1>2, HeadType DEF Creating
<1>4. e.given \in Name BY <1>1, <1>2, HeadType DEF Creating
<1>5. accounts' = IF a.done THEN [accounts EXCEPT ![h] = @ \cup {e.given}] ELSE accounts
    BY <1>1, <1>3 DEF CreateUser
<1>6. accounts \in [Host -> SUBSET Name] BY DEF ProxyInv, ProxyTypeOK
<1>7. /\ accounts' \in [Host -> SUBSET Name]
      /\ \A g \in Host : accounts[g] \subseteq accounts'[g]
      /\ a.done => e.given \in accounts'[h]
    BY <1>3, <1>4, <1>5, <1>6
<1>8. a.ok \in BOOLEAN /\ a.up \in BOOLEAN /\ (a.ok => a.done) BY AnswerType
<1>9. failures' \in Nat /\ (failures' = 0 => failures = 0)
    BY FailuresCounted DEF CreateUser
<1>10. UNCHANGED <<access, tables, history>> BY DEF CreateUser
<1>11. \A p \in Host \X Name : Served(p) => Served(p)' BY <1>7, <1>10 DEF Served, history
<1>12. Progress BY <1>9, <1>10, <1>11 DEF Progress, history, Listed, Calm
<1>13. ErrandOK(e)' BY <1>1, <1>12, ErrandKept
<1>14. a.ok => Served(<<Head(e.hosts), e.given>>)' BY <1>3, <1>7, <1>8 DEF Served
<1>15. PICK f \in Errand : ErrandOK(f)' /\ errand' = [errand EXCEPT ![w] = f]
    BY <1>1, <1>2, <1>8, <1>13, <1>14, UserCreated DEF CreateUser, SetErrand
<1> QED BY <1>7, <1>10, <1>12, <1>15, Step DEF tables, history, ProxyInv, ProxyTypeOK

LEMMA RenameUserOK ==
    ASSUME ProxyInv, NEW w \in Agent, NEW new \in Name, RenameUser(w, new)
    PROVE  ProxyInv'
<1>1. PICK e \in Errand : e = errand[w] /\ ErrandOK(e) BY ErrandOf
<1>2. e.pc = "create" BY <1>1 DEF RenameUser
<1>3. /\ new \notin names /\ names' = names \cup {new} /\ renamed' = renamed \cup {new}
      /\ UNCHANGED <<servers, tables, failures, touched, raced>>
    BY DEF RenameUser
<1>4. Progress BY <1>3, Quiet DEF servers, ProxyInv, ProxyTypeOK
<1>5. ErrandOK(e)' BY <1>1, <1>4, ErrandKept
<1>6. PICK tries \in Nat : tries = e.tries + 1 BY DEF Errand
<1> DEFINE f == [e EXCEPT !.given = new, !.tries = tries]
<1>7. /\ f \in Errand /\ f.given = new /\ f.pc = e.pc /\ f.hosts = e.hosts /\ f.name = e.name
      /\ f.order = e.order /\ f.kind = e.kind /\ f.old = e.old /\ f.made = e.made /\ f.pair = e.pair
      /\ f.targets = e.targets /\ f.unset = e.unset /\ f.listed = e.listed
    BY DEF Errand
<1>8. errand' = [errand EXCEPT ![w] = f] BY <1>1, <1>6 DEF RenameUser, SetErrand
<1> HIDE DEF f
<1>9. \A r \in e.old : r.name # new BY <1>1, <1>3 DEF ErrandOK
<1>10. LocalOK(f)' BY <1>2, <1>5, <1>7, <1>9 DEF ErrandOK, LocalOK, Creating, PairOf
<1>11. Calm' => ListsOK(f)' BY <1>2, <1>5, <1>7 DEF ErrandOK, ListsOK
<1>12. ErrandOK(f)' BY <1>2, <1>3, <1>5, <1>7, <1>10, <1>11 DEF ErrandOK, Creating
<1> QED BY <1>3, <1>4, <1>7, <1>8, <1>12, Step DEF servers, tables, ProxyInv, ProxyTypeOK

LEMMA RefuseUserOK ==
    ASSUME ProxyInv, NEW w \in Agent, NEW up \in BOOLEAN, RefuseUser(w, up)
    PROVE  ProxyInv'
<1>1. PICK e \in Errand : e = errand[w] /\ ErrandOK(e) BY ErrandOf
<1>2. e.pc = "create" BY <1>1 DEF RefuseUser
<1>3. UNCHANGED <<servers, tables, failures, history>> BY DEF RefuseUser
<1>4. Progress BY <1>3, Quiet DEF servers, history, ProxyInv, ProxyTypeOK
<1>5. ErrandOK(e)' BY <1>1, <1>4, ErrandKept
<1>6. PICK f \in Errand : ErrandOK(f)' /\ errand' = [errand EXCEPT ![w] = f]
    BY <1>1, <1>2, <1>5, UserCreated DEF RefuseUser, SetErrand
<1> QED BY <1>3, <1>4, <1>6, Step DEF servers, tables, history, ProxyInv, ProxyTypeOK

LEMMA ReadAccessOK ==
    ASSUME ProxyInv, NEW w \in Agent, NEW a \in Answers, ReadAccess(w, a)
    PROVE  ProxyInv'
<1>1. PICK e \in Errand : e = errand[w] /\ ErrandOK(e) /\ LocalOK(e) BY ErrandOf
<1>2. e.pc = "read" BY <1>1 DEF ReadAccess
<1>3. failures' \in Nat /\ (failures' = 0 => failures = 0 /\ a.ok)
    BY FailuresCounted DEF ReadAccess
<1>4. UNCHANGED <<servers, tables, history>> BY DEF ReadAccess
<1>5. Progress BY <1>3, <1>4, Quiet DEF servers, history
<1>6. ErrandOK(e)' BY <1>1, <1>5, ErrandKept
<1>7. PICK text \in SUBSET Name : text = access[Head(e.hosts)]
    BY <1>1, <1>2, HeadType DEF Creating, ProxyInv, ProxyTypeOK
<1>a. PICK down \in SUBSET Host : down = DownAfter(e, a.up)
    BY <1>1, <1>2, HeadType, DownType, AnswerType DEF Creating
<1> DEFINE f == [e EXCEPT !.text = text, !.down = down, !.pc = "write"]
<1>8. /\ f \in Errand /\ f.pc = "write" /\ f.hosts = e.hosts /\ f.name = e.name
      /\ f.given = e.given /\ f.order = e.order /\ f.kind = e.kind /\ f.old = e.old /\ f.made = e.made /\ f.pair = e.pair
      /\ f.targets = e.targets /\ f.unset = e.unset /\ f.turn = e.turn
      /\ f.listed = e.listed /\ f.answered = e.answered
    BY DEF Errand, PCs, Creating
<1>9. errand' = [errand EXCEPT ![w] = IF a.ok THEN f ELSE Idle]
    BY <1>1, <1>7, <1>a DEF ReadAccess, SetErrand, GiveUp
<1> HIDE DEF f
<1>10. LocalOK(f)' BY <1>1, <1>2, <1>8 DEF LocalOK, Creating, PairOf
<1>11. Calm' => ListsOK(f)' BY <1>2, <1>6, <1>8 DEF ErrandOK, ListsOK
<1>12. ErrandOK(f)' BY <1>2, <1>6, <1>8, <1>10, <1>11 DEF ErrandOK, Creating
<1>13. PICK g \in Errand : ErrandOK(g)' /\ errand' = [errand EXCEPT ![w] = g]
    BY <1>8, <1>9, <1>12, IdleOK
<1> QED BY <1>4, <1>5, <1>13, Step DEF servers, tables, history, ProxyInv, ProxyTypeOK

LEMMA WriteFields ==
    ASSUME NEW e \in Errand, NEW unset \in SUBSET Host, NEW turn \in SUBSET Host,
           NEW down \in SUBSET Host, NEW pc \in PCs
    PROVE  [e EXCEPT !.unset = unset, !.turn = turn, !.down = down, !.pc = pc] \in Errand
BY DEF Errand

LEMMA AccessWritten ==
    ASSUME NEW e \in Errand, ErrandOK(e)', e.pc = "write", NEW g \in e.turn,
           NEW ok \in BOOLEAN, failures' = 0 => ok, NEW up \in BOOLEAN,
           ok => Listed(<<Head(e.hosts), e.name>>)' \/ ~Calm',
           NEW unset, unset = IF ok THEN e.unset \ {g} ELSE e.unset
    PROVE  LET f == [e EXCEPT !.unset = unset, !.turn = @ \ {g}, !.down = DownAfter(e, up),
                              !.pc = IF e.turn = {g} THEN "rows" ELSE "read"]
           IN  f \in Errand /\ ErrandOK(f)'
<1>1. LocalOK(e) BY DEF ErrandOK, LocalOK
<1>2. unset \in SUBSET Host BY DEF Errand
<1>3. PICK pc \in PCs : pc = IF e.turn = {g} THEN "rows" ELSE "read" BY DEF PCs, Creating
<1>a. PICK down \in SUBSET Host : down = DownAfter(e, up)
    BY <1>1, HeadType, DownType DEF Creating
<1>b. PICK turn \in SUBSET Host : turn = e.turn \ {g} BY DEF Errand
<1> DEFINE f == [e EXCEPT !.unset = unset, !.turn = turn, !.down = down, !.pc = pc]
<1>c. f \in Errand BY <1>2, WriteFields
<1>4. /\ f \in Errand /\ f.pc = pc
      /\ f.hosts = e.hosts /\ f.name = e.name /\ f.given = e.given
      /\ f.order = e.order /\ f.kind = e.kind /\ f.old = e.old /\ f.made = e.made /\ f.pair = e.pair
      /\ f.targets = e.targets /\ f.unset = unset /\ f.turn = e.turn \ {g}
      /\ f.listed = e.listed /\ f.answered = e.answered
    BY <1>b, <1>c DEF Errand
<1>5. f = [e EXCEPT !.unset = unset, !.turn = @ \ {g}, !.down = DownAfter(e, up),
                    !.pc = IF e.turn = {g} THEN "rows" ELSE "read"]
    BY <1>3, <1>a, <1>b
<1> HIDE DEF f
<1>6. LocalOK(f)' BY <1>1, <1>3, <1>4 DEF LocalOK, Creating, PairOf
<1>7. ASSUME Calm' PROVE ListsOK(f)'
    <2>1. /\ e.unset = {Head(e.hosts)} /\ e.turn = {Head(e.hosts)}
          /\ Head(e.hosts) \in e.listed
          /\ \A h \in e.listed \ {Head(e.hosts)} : Listed(<<h, e.name>>)'
        BY <1>7 DEF ErrandOK, ListsOK
    <2>2. g = Head(e.hosts) /\ ok BY <1>7, <2>1 DEF Calm
    <2>3. f.pc = "rows" /\ f.unset = {} BY <1>3, <1>4, <2>1, <2>2
    <2>4. \A h \in e.listed : Listed(<<h, e.name>>)' BY <1>7, <2>1, <2>2
    <2> QED BY <1>4, <2>1, <2>3, <2>4 DEF ListsOK
<1>8. ErrandOK(f)' BY <1>3, <1>4, <1>6, <1>7 DEF ErrandOK, Creating
<1> QED BY <1>4, <1>5, <1>8

LEMMA WriteAccessOK ==
    ASSUME ProxyInv, NEW w \in Agent, NEW a \in Answers, NEW g \in Host,
           WriteAccess(w, a, g)
    PROVE  ProxyInv'
<1>1. PICK e \in Errand : e = errand[w] /\ ErrandOK(e) /\ LocalOK(e) BY ErrandOf
<1>2. e.pc = "write" /\ g \in e.turn BY <1>1 DEF WriteAccess
<1>3. PICK h \in Host : h = Head(e.hosts) BY <1>1, <1>2, HeadType DEF Creating
<1>4. e.name \in Name BY <1>1, <1>2, HeadType DEF Creating
<1>5. e.text \in SUBSET Name BY DEF Errand
<1>6. access' = IF a.done THEN [access EXCEPT ![h] = e.text \cup {e.name}] ELSE access
    BY <1>1, <1>3 DEF WriteAccess
<1>7. access \in [Host -> SUBSET Name] BY DEF ProxyInv, ProxyTypeOK
<1>8. access' \in [Host -> SUBSET Name] BY <1>3, <1>4, <1>5, <1>6, <1>7
<1>9. /\ a.up \in BOOLEAN
      /\ \E b \in BOOLEAN : b = a.ok /\ (b => a.done)
    BY AnswerType
<1>a. PICK ok \in BOOLEAN : ok = a.ok /\ (ok => a.done) BY <1>9
<1>10. failures' \in Nat /\ (failures' = 0 => failures = 0 /\ a.ok /\ a.done)
    BY FailuresCounted DEF WriteAccess
<1>11. raced' = (raced \/ (a.done /\ e.text # access[h])) BY <1>1, <1>3 DEF WriteAccess
<1>12. UNCHANGED <<accounts, tables, names, renamed, touched>> BY DEF WriteAccess
<1>13. ASSUME Calm'
       PROVE  /\ Calm /\ e.name \in access'[h]
              /\ \A k \in Host : access[k] \subseteq access'[k]
    <2>1. a.done /\ failures = 0 BY <1>10, <1>13 DEF Calm
    <2>2. ~raced /\ e.text = access[h] BY <1>11, <1>13, <2>1 DEF Calm
    <2> QED BY <1>3, <1>6, <1>7, <2>1, <2>2 DEF Calm
<1>14. Progress BY <1>10, <1>12, <1>13 DEF Progress, Served, Listed
<1>15. ErrandOK(e)' BY <1>1, <1>14, ErrandKept
<1>16. ok => Listed(<<Head(e.hosts), e.name>>)' \/ ~Calm' BY <1>3, <1>13 DEF Listed
<1>17. PICK f \in Errand : ErrandOK(f)' /\ errand' = [errand EXCEPT ![w] = f]
    BY <1>1, <1>2, <1>9, <1>a, <1>10, <1>15, <1>16, AccessWritten DEF WriteAccess, SetErrand
<1>18. raced' \in BOOLEAN BY <1>11
<1> QED BY <1>8, <1>12, <1>14, <1>17, <1>18, Step DEF tables, ProxyInv, ProxyTypeOK

LEMMA CreateRowsOK ==
    ASSUME ProxyInv, NEW w \in Agent, CreateRows(w)
    PROVE  ProxyInv'
<1>1. PICK e \in Errand : e = errand[w] /\ ErrandOK(e) /\ LocalOK(e) BY ErrandOf
<1>2. e.pc = "rows" BY <1>1 DEF CreateRows
<1>3. /\ Head(e.hosts) \in Host /\ e.name \in Name /\ e.given \in Name
      /\ e.name \in names /\ e.given \in names
    BY <1>1, <1>2, HeadType DEF Creating, ErrandOK
<1>4. Tail(e.hosts) \in Seq(Host) /\ Len(e.hosts) \in Nat
    BY <1>1, <1>2 DEF LocalOK, Creating, Errand
<1> DEFINE row == [order |-> e.order, host |-> Head(e.hosts), name |-> e.given,
                   subnet |-> Len(e.hosts)]
           new == IF e.answered THEN {row} ELSE {}
           f   == [e EXCEPT !.hosts = Tail(e.hosts), !.made = e.made \cup new]
<1>5. /\ row \in ProxyRow /\ row.name = e.given
      /\ PairOf(row) = <<Head(e.hosts), e.given>> /\ row.host = Head(e.hosts)
    BY <1>1, <1>2, <1>3, <1>4 DEF LocalOK, Creating, ProxyRow, PairOf
<1>6. /\ proxies' = proxies \cup new
      /\ \/ errand' = [errand EXCEPT ![w] = Idle]
         \/ errand' = [errand EXCEPT ![w] = NextSubnet(f)]
    BY <1>1 DEF CreateRows, SetErrand, GiveUp
<1>7. UNCHANGED <<servers, messages, marks, failures, history>> BY DEF CreateRows
<1>8. /\ new \subseteq ProxyRow /\ \A r \in new : r = row
      /\ new # {} => e.answered
    BY <1>5
<1> HIDE DEF row, new
<1>9. e.made \cup new \in SUBSET ProxyRow BY <1>8 DEF Errand
<1> HIDE DEF f
<1>10. Progress BY <1>7, Quiet DEF servers, history, ProxyInv, ProxyTypeOK
<1>11. ErrandOK(e)' BY <1>1, <1>10, ErrandKept
<1>12. /\ f \in Errand /\ f.hosts = Tail(e.hosts) /\ f.made = e.made \cup new
       /\ f.name = e.name /\ f.order = e.order /\ f.kind = e.kind /\ f.old = e.old
       /\ f.pair = e.pair /\ f.targets = e.targets /\ f.unset = e.unset
       /\ f.listed = e.listed
    BY <1>4, <1>9 DEF f, Errand
<1>13. \A r \in f.old : r.name # e.name /\ r.name # e.given /\ r.name \in names'
    BY <1>1, <1>2, <1>11, <1>12 DEF LocalOK, ErrandOK, Creating
<1>14. \A m \in f.made, r \in f.old : m.name # r.name
    BY <1>1, <1>5, <1>8, <1>12, <1>13 DEF LocalOK
<1>15. \A r \in f.old : f.old # {} => \E q \in f.old : f.pair = PairOf(q)
    BY <1>1, <1>2, <1>12 DEF LocalOK, Creating
<1>16. Calm' => f.unset = {} /\ \A h \in f.listed : Listed(<<h, f.name>>)'
    BY <1>2, <1>11, <1>12 DEF ErrandOK, ListsOK
<1>17. /\ f.kind \in {"deliver", "reset"} /\ f.name \in Name /\ f.name \in names'
       /\ f.order \in Order /\ (f.kind # "reset" => f.old = {})
       /\ f.targets = {}
    BY <1>1, <1>2, <1>3, <1>7, <1>12 DEF LocalOK, Creating, history
<1>18. NextSubnet(f) \in Errand /\ ErrandOK(NextSubnet(f))'
    BY <1>12, <1>13, <1>14, <1>15, <1>16, <1>17, NextOK
<1>19. PICK g \in Errand : ErrandOK(g)' /\ errand' = [errand EXCEPT ![w] = g]
    BY <1>6, <1>18, IdleOK
<1>20. /\ errand' \in [Agent -> Errand]
       /\ \A v \in Agent, z \in Errand : errand'[v] = z => ErrandOK(z)'
    BY <1>10, <1>19, Moved
<1>21. \A r \in proxies' : r.name \in names' /\ r \in ProxyRow
    BY <1>3, <1>5, <1>6, <1>7, <1>8 DEF ProxyInv, ProxyTypeOK, history
<1>22. ProxyTypeOK'
    BY <1>7, <1>20, <1>21 DEF ProxyInv, ProxyTypeOK, servers, history
<1>23. \A r \in new : PairOf(r) \in touched \/ r.name \in accounts[r.host]
    BY <1>1, <1>2, <1>5, <1>8 DEF ErrandOK, Served
<1>24. Calm => \A r \in new :
           PairOf(r) \in touched \/ r.name \in renamed \/ r.name \in access[r.host]
    <2>1. ASSUME Calm, e.given \notin renamed PROVE Listed(<<Head(e.hosts), e.given>>)
        BY <1>1, <1>2, <2>1 DEF ErrandOK, ListsOK, Creating
    <2> QED BY <1>5, <1>8, <2>1 DEF Listed
<1>25. DeliveredIsServed'
    BY <1>6, <1>7, <1>23 DEF ProxyInv, DeliveredIsServed, servers, history, PairOf
<1>26. DeliveredHasAccess'
    BY <1>6, <1>7, <1>24 DEF ProxyInv, DeliveredHasAccess, Calm, servers, history, PairOf
<1> QED BY <1>20, <1>22, <1>25, <1>26 DEF ProxyInv

-----------------------------------------------------------------------------
(* Resets and deletions.                                                   *)

(* A step that starts or ends a job and leaves rows and servers alone. *)
LEMMA Locally ==
    ASSUME ProxyInv, UNCHANGED <<servers, proxies, failures, names, renamed, raced>>,
           touched \subseteq touched', touched' \subseteq Host \X Name,
           messages' \subseteq touched',
           NEW w \in Agent, NEW e \in Errand, ErrandOK(e)',
           errand' = [errand EXCEPT ![w] = e]
    PROVE  ProxyInv'
<1>1. Progress
    BY DEF Progress, Served, Listed, Calm, servers, ProxyInv, ProxyTypeOK
<1> QED BY <1>1, Step DEF servers, ProxyInv, ProxyTypeOK

LEMMA ResetFailsOK ==
    ASSUME ProxyInv, NEW w \in Agent, ResetFails(w)
    PROVE  ProxyInv'
<1>1. errand' = [errand EXCEPT ![w] = Idle] BY DEF ResetFails, SetErrand, GiveUp
<1>2. UNCHANGED <<servers, tables, failures, history>> BY DEF ResetFails
<1> QED BY <1>1, <1>2, IdleOK, Locally DEF tables, history, ProxyInv, ProxyTypeOK

LEMMA RefusePrefixOK ==
    ASSUME ProxyInv, NEW w \in Agent, RefusePrefix(w)
    PROVE  ProxyInv'
<1>1. errand' = [errand EXCEPT ![w] = Idle] BY DEF RefusePrefix, SetErrand, GiveUp
<1>2. UNCHANGED <<servers, tables, failures, history>> BY DEF RefusePrefix
<1> QED BY <1>1, <1>2, IdleOK, Locally DEF tables, history, ProxyInv, ProxyTypeOK

LEMMA ResetFields ==
    ASSUME NEW i \in Errand, NEW o \in Order, NEW old \in SUBSET ProxyRow,
           NEW targets \in SUBSET (Host \X Name)
    PROVE  [i EXCEPT !.kind = "reset", !.pc = "each", !.order = o, !.old = old,
                     !.targets = targets] \in Errand
BY DEF Errand, PCs

LEMMA StartResetOK ==
    ASSUME ProxyInv, NEW w \in Agent, NEW o \in Order, StartReset(w, o)
    PROVE  ProxyInv'
<1>1. PICK i \in Errand : i = Idle BY IdleOK
<1>2. PICK mine \in SUBSET ProxyRow : mine = {r \in proxies : r.order = o}
    BY DEF ProxyInv, ProxyTypeOK
<1>3. PICK targets \in SUBSET (Host \X Name) : targets = {PairOf(r) : r \in mine}
    BY PairType
<1> DEFINE f == [i EXCEPT !.kind = "reset", !.pc = "each", !.order = o,
                          !.old = mine, !.targets = targets]
<1>a. f \in Errand BY ResetFields
<1>4. /\ f \in Errand /\ f.kind = "reset" /\ f.pc = "each" /\ f.order = o
      /\ f.old = mine /\ f.targets = targets /\ f.hosts = i.hosts
      /\ f.listed = i.listed /\ f.unset = i.unset /\ f.made = i.made
    BY <1>a DEF Errand
<1>5. /\ i.hosts = <<>> /\ i.listed = {} /\ i.unset = {} /\ i.made = {}
    BY <1>1 DEF Idle
<1>6. errand' = [errand EXCEPT ![w] = f] BY <1>1, <1>2, <1>3 DEF StartReset, SetErrand
<1>7. UNCHANGED <<servers, tables, failures, history>> BY DEF StartReset
<1>8. \A r \in mine : r.name \in names' BY <1>2, <1>7 DEF ProxyInv, ProxyTypeOK, history
<1> HIDE DEF f
<1>9. LocalOK(f)' BY <1>3, <1>4, <1>5 DEF LocalOK, Creating, PairOf
<1>10. ListsOK(f)' BY <1>4 DEF ListsOK
<1>11. ErrandOK(f)' BY <1>4, <1>8, <1>9, <1>10 DEF ErrandOK, Creating
<1> QED BY <1>4, <1>6, <1>7, <1>11, Locally DEF tables, history, ProxyInv, ProxyTypeOK

LEMMA NextTargetOK ==
    ASSUME ProxyInv, NEW w \in Agent, NEW p, NextTarget(w, p)
    PROVE  ProxyInv'
<1>1. PICK e \in Errand : e = errand[w] /\ ErrandOK(e) /\ LocalOK(e) BY ErrandOf
<1>2. e.pc = "each" /\ p \in e.targets /\ touched' = touched \cup {p}
    BY <1>1 DEF NextTarget
<1>3. p \in Host \X Name BY <1>2 DEF Errand
<1> DEFINE f == [e EXCEPT !.targets = e.targets \ {p}, !.pair = p, !.pc = "user"]
<1>4. /\ f \in Errand /\ f.pc = "user" /\ f.hosts = e.hosts /\ f.order = e.order
      /\ f.kind = e.kind /\ f.old = e.old /\ f.made = e.made /\ f.pair = p
      /\ f.targets = e.targets \ {p} /\ f.unset = e.unset /\ f.listed = e.listed
    BY <1>3 DEF Errand, PCs
<1>5. errand' = [errand EXCEPT ![w] = f] BY <1>1 DEF NextTarget, SetErrand
<1>6. UNCHANGED <<servers, tables, failures, names, renamed, raced>> BY DEF NextTarget
<1> HIDE DEF f
<1>7. \/ \E r \in f.old : f.pair = PairOf(r)
      \/ \A r \in f.old : PairOf(r) \in f.targets
    BY <1>1, <1>2, <1>4 DEF LocalOK
<1>8. LocalOK(f)' BY <1>1, <1>2, <1>4, <1>7 DEF LocalOK, Creating, PairOf
<1>9. ListsOK(f)' BY <1>4 DEF ListsOK
<1>10. ErrandOK(f)' BY <1>1, <1>2, <1>4, <1>6, <1>8, <1>9 DEF ErrandOK, Creating
<1> QED BY <1>2, <1>3, <1>4, <1>5, <1>6, <1>10, Locally
        DEF tables, ProxyInv, ProxyTypeOK

LEMMA StartDeleteTaskOK ==
    ASSUME ProxyInv, NEW w \in Agent, NEW p \in messages, StartDeleteTask(w, p)
    PROVE  ProxyInv'
<1>1. PICK i \in Errand : i = Idle BY IdleOK
<1>2. p \in touched /\ p \in Host \X Name BY DEF ProxyInv, ProxyTypeOK
<1> DEFINE f == [i EXCEPT !.kind = "delete", !.pc = "user", !.pair = p]
<1>3. /\ f \in Errand /\ f.kind = "delete" /\ f.pc = "user" /\ f.pair = p
      /\ f.old = i.old /\ f.targets = i.targets /\ f.hosts = i.hosts
      /\ f.listed = i.listed /\ f.unset = i.unset /\ f.made = i.made
    BY <1>2 DEF Errand, PCs
<1>4. /\ i.hosts = <<>> /\ i.listed = {} /\ i.unset = {} /\ i.made = {}
      /\ i.old = {} /\ i.targets = {}
    BY <1>1 DEF Idle
<1>5. errand' = [errand EXCEPT ![w] = f] BY <1>1 DEF StartDeleteTask, SetErrand
<1>6. UNCHANGED <<servers, proxies, failures, history>> /\ messages' \subseteq messages
    BY DEF StartDeleteTask
<1> HIDE DEF f
<1>7. LocalOK(f)' BY <1>3, <1>4 DEF LocalOK, Creating, PairOf
<1>8. ListsOK(f)' BY <1>3 DEF ListsOK
<1>9. ErrandOK(f)' BY <1>2, <1>3, <1>4, <1>6, <1>7, <1>8 DEF ErrandOK, Creating, history
<1> QED BY <1>3, <1>5, <1>6, <1>9, Locally DEF history, ProxyInv, ProxyTypeOK

(* del_user and del_acl take away a name that was deleted or reset. *)
LEMMA DelUserOK ==
    ASSUME ProxyInv, NEW w \in Agent, NEW a \in Answers, DelUser(w, a)
    PROVE  ProxyInv'
<1>1. PICK e \in Errand : e = errand[w] /\ ErrandOK(e) /\ LocalOK(e) BY ErrandOf
<1>2. e.pc = "user" /\ e.pair \in touched BY <1>1 DEF DelUser, ErrandOK
<1>3. PICK h \in Host, n \in Name : e.pair = <<h, n>> BY <1>2 DEF ProxyInv, ProxyTypeOK
<1>4. accounts' = IF a.done THEN [accounts EXCEPT ![h] = @ \ {n}] ELSE accounts
    BY <1>1, <1>3 DEF DelUser
<1>5. accounts \in [Host -> SUBSET Name] BY DEF ProxyInv, ProxyTypeOK
<1>6. accounts' \in [Host -> SUBSET Name] BY <1>4, <1>5
<1>7. failures' \in Nat /\ (failures' = 0 => failures = 0)
    BY FailuresCounted DEF DelUser
<1>8. UNCHANGED <<access, tables, history>> BY DEF DelUser
<1>9. ASSUME NEW k \in Host, NEW m \in Name, Served(<<k, m>>) PROVE Served(<<k, m>>)'
    <2>1. CASE k = h /\ m = n BY <1>2, <1>3, <1>8, <2>1 DEF Served, history
    <2>2. CASE ~(k = h /\ m = n) BY <1>4, <1>5, <1>8, <1>9, <2>2 DEF Served, history
    <2> QED BY <2>1, <2>2
<1>10. Progress BY <1>7, <1>8, <1>9 DEF Progress, history, Listed, Calm
<1>a. PICK pc \in PCs : pc = IF e.kind = "reset" THEN "each" ELSE "list" BY DEF PCs
<1> DEFINE f == [e EXCEPT !.pc = pc]
<1>b. f \in Errand BY DEF Errand
<1>11. /\ f \in Errand /\ f.pc = (IF e.kind = "reset" THEN "each" ELSE "list")
       /\ f.hosts = e.hosts /\ f.order = e.order
       /\ f.kind = e.kind /\ f.old = e.old /\ f.made = e.made /\ f.pair = e.pair
       /\ f.targets = e.targets /\ f.unset = e.unset /\ f.listed = e.listed
    BY <1>a, <1>b DEF Errand
<1>12. errand' = [errand EXCEPT ![w] = f] BY <1>1, <1>a DEF DelUser, SetErrand
<1> HIDE DEF f
<1>13. LocalOK(f)' BY <1>1, <1>2, <1>11 DEF LocalOK, Creating, PairOf
<1>14. ListsOK(f)' BY <1>11 DEF ListsOK
<1>15. ErrandOK(f)'
    BY <1>1, <1>2, <1>8, <1>11, <1>13, <1>14 DEF ErrandOK, Creating, history
<1> QED BY <1>6, <1>8, <1>10, <1>11, <1>12, <1>15, Step
        DEF tables, history, ProxyInv, ProxyTypeOK

LEMMA ReadListOK ==
    ASSUME ProxyInv, NEW w \in Agent, NEW a \in Answers, ReadList(w, a)
    PROVE  ProxyInv'
<1>1. PICK e \in Errand : e = errand[w] /\ ErrandOK(e) /\ LocalOK(e) BY ErrandOf
<1>2. e.pc = "list" /\ e.pair \in touched BY <1>1 DEF ReadList, ErrandOK
<1>3. PICK text \in SUBSET Name : text = access[e.pair[1]]
    BY <1>2 DEF ProxyInv, ProxyTypeOK
<1>4. failures' \in Nat /\ (failures' = 0 => failures = 0)
    BY FailuresCounted DEF ReadList
<1>5. UNCHANGED <<servers, tables, history>> BY DEF ReadList
<1>6. Progress BY <1>4, <1>5, Quiet DEF servers, history
<1> DEFINE f == [e EXCEPT !.text = text, !.pc = "unlist"]
<1>7. /\ f \in Errand /\ f.pc = "unlist" /\ f.hosts = e.hosts /\ f.order = e.order
      /\ f.kind = e.kind /\ f.old = e.old /\ f.made = e.made /\ f.pair = e.pair
      /\ f.targets = e.targets /\ f.unset = e.unset /\ f.listed = e.listed
    BY DEF Errand, PCs
<1>8. errand' = [errand EXCEPT ![w] = f] \/ errand' = [errand EXCEPT ![w] = Idle]
    BY <1>1, <1>3 DEF ReadList, SetErrand
<1> HIDE DEF f
<1>9. LocalOK(f)' BY <1>1, <1>2, <1>7 DEF LocalOK, Creating, PairOf
<1>10. ListsOK(f)' BY <1>7 DEF ListsOK
<1>11. ErrandOK(f)'
    BY <1>1, <1>2, <1>5, <1>7, <1>9, <1>10 DEF ErrandOK, Creating, history
<1>12. PICK g \in Errand : ErrandOK(g)' /\ errand' = [errand EXCEPT ![w] = g]
    BY <1>7, <1>8, <1>11, IdleOK
<1> QED BY <1>5, <1>6, <1>12, Step DEF servers, tables, history, ProxyInv, ProxyTypeOK

LEMMA WriteListOK ==
    ASSUME ProxyInv, NEW w \in Agent, NEW a \in Answers, WriteList(w, a)
    PROVE  ProxyInv'
<1>1. PICK e \in Errand : e = errand[w] /\ ErrandOK(e) /\ LocalOK(e) BY ErrandOf
<1>2. e.pc = "unlist" /\ e.pair \in touched BY <1>1 DEF WriteList, ErrandOK
<1>3. PICK h \in Host, n \in Name : e.pair = <<h, n>> BY <1>2 DEF ProxyInv, ProxyTypeOK
<1>4. e.text \in SUBSET Name BY DEF Errand
<1>5. access' = IF a.done THEN [access EXCEPT ![h] = e.text \ {n}] ELSE access
    BY <1>1, <1>3 DEF WriteList
<1>6. access \in [Host -> SUBSET Name] BY DEF ProxyInv, ProxyTypeOK
<1>7. access' \in [Host -> SUBSET Name] BY <1>4, <1>5, <1>6
<1>8. failures' \in Nat /\ (failures' = 0 => failures = 0 /\ a.done)
    BY FailuresCounted DEF WriteList
<1>9. raced' = (raced \/ (a.done /\ e.text # access[h])) BY <1>1, <1>3 DEF WriteList
<1>10. UNCHANGED <<accounts, tables, names, renamed, touched>> BY DEF WriteList
<1>11. ASSUME Calm', NEW k \in Host, NEW m \in Name
       PROVE  Calm /\ (Listed(<<k, m>>) => Listed(<<k, m>>)')
    <2>1. a.done /\ failures = 0 BY <1>8, <1>11 DEF Calm
    <2>2. ~raced /\ e.text = access[h] BY <1>9, <1>11, <2>1 DEF Calm
    <2>3. CASE k = h /\ m = n BY <1>2, <1>3, <1>10, <2>1, <2>2, <2>3 DEF Listed, Calm
    <2>4. CASE ~(k = h /\ m = n)
        BY <1>5, <1>6, <1>10, <2>1, <2>2, <2>4 DEF Listed, Calm
    <2> QED BY <2>3, <2>4
<1>12. Calm' => Calm BY <1>8, <1>9 DEF Calm
<1>13. Progress BY <1>8, <1>10, <1>11, <1>12 DEF Progress, Served
<1>14. errand' = [errand EXCEPT ![w] = Idle] BY DEF WriteList, SetErrand
<1>15. raced' \in BOOLEAN BY <1>9
<1> QED BY <1>7, <1>10, <1>13, <1>14, <1>15, IdleOK, Step
        DEF tables, ProxyInv, ProxyTypeOK

(* The signal of deleted rows: their pairs become touched. *)
LEMMA DeleteFacts ==
    ASSUME ProxyInv, NEW deleted, deleted \subseteq proxies, Delete(deleted)
    PROVE  /\ touched \subseteq touched' /\ touched' \subseteq Host \X Name
           /\ messages' \subseteq touched' /\ proxies' \subseteq proxies
<1> DEFINE pairs == {PairOf(r) : r \in deleted}
<1>1. pairs \subseteq Host \X Name BY PairType DEF ProxyInv, ProxyTypeOK
<1>2. /\ proxies' = proxies \ deleted /\ messages' = messages \cup (pairs \ marks)
      /\ touched' = touched \cup pairs
    BY DEF Delete
<1> HIDE DEF pairs
<1> QED BY <1>1, <1>2 DEF ProxyInv, ProxyTypeOK

LEMMA DropOldOK ==
    ASSUME ProxyInv, NEW w \in Agent, DropOld(w)
    PROVE  ProxyInv'
<1>1. Dropped(errand[w]) \subseteq proxies /\ Delete(Dropped(errand[w]))
    BY DEF DropOld, Dropped
<1>2. errand' = [errand EXCEPT ![w] = Idle] BY DEF DropOld, SetErrand
<1>3. UNCHANGED <<servers, failures, names, renamed, raced>> BY DEF DropOld
<1>4. /\ touched \subseteq touched' /\ touched' \subseteq Host \X Name
      /\ messages' \subseteq touched' /\ proxies' \subseteq proxies
    BY <1>1, DeleteFacts
<1>5. Progress
    BY <1>3, <1>4 DEF Progress, Served, Listed, Calm, servers, ProxyInv, ProxyTypeOK
<1> QED BY <1>2, <1>3, <1>4, <1>5, IdleOK, Step DEF servers, ProxyInv, ProxyTypeOK

(* A step of no agent. *)
LEMMA Still ==
    ASSUME ProxyInv, UNCHANGED <<servers, errand, failures, names, renamed, raced>>,
           touched \subseteq touched', touched' \subseteq Host \X Name,
           messages' \subseteq touched', proxies' \subseteq proxies
    PROVE  ProxyInv'
<1>1. Progress
    BY DEF Progress, Served, Listed, Calm, servers, ProxyInv, ProxyTypeOK
<1>2. ASSUME NEW v \in Agent, NEW f \in Errand, errand'[v] = f PROVE ErrandOK(f)'
    <2>1. ErrandOK(f) BY <1>2 DEF ProxyInv
    <2> QED BY <1>1, <2>1, ErrandKept
<1>3. \A r \in proxies' : r.name \in names' BY DEF ProxyInv, ProxyTypeOK
<1>4. ProxyTypeOK' BY <1>3 DEF ProxyInv, ProxyTypeOK, servers
<1> QED BY <1>1, <1>2, <1>4, RowsKept DEF ProxyInv

LEMMA DeleteProxyOK ==
    ASSUME ProxyInv, NEW r \in proxies, DeleteProxy(r)
    PROVE  ProxyInv'
<1>1. {r} \subseteq proxies /\ Delete({r}) BY DEF DeleteProxy
<1>2. UNCHANGED <<servers, errand, failures, names, renamed, raced>> BY DEF DeleteProxy
<1>3. /\ touched \subseteq touched' /\ touched' \subseteq Host \X Name
      /\ messages' \subseteq touched' /\ proxies' \subseteq proxies
    BY <1>1, DeleteFacts
<1> QED BY <1>2, <1>3, Still

LEMMA MarkExpiresOK ==
    ASSUME ProxyInv, NEW p \in marks, MarkExpires(p)
    PROVE  ProxyInv'
<1>1. UNCHANGED <<servers, proxies, messages, errand, failures, history>>
    BY DEF MarkExpires
<1> QED BY <1>1, Still DEF history, ProxyInv, ProxyTypeOK

-----------------------------------------------------------------------------
(* The theorems.                                                           *)

LEMMA InitOK == ProxyInit => ProxyInv
<1> SUFFICES ASSUME ProxyInit PROVE ProxyInv OBVIOUS
<1>1. proxies \subseteq ProxyRow BY ProxyServerAssumption DEF ProxyInit
<1>2. /\ accounts \in [Host -> SUBSET Name] /\ access = accounts
      /\ \A r \in proxies : r.name \in accounts[r.host]
    <2>1. \A r \in proxies : r.host \in Host /\ r.name \in Name BY <1>1 DEF ProxyRow
    <2>2. accounts = [h \in Host |-> {r.name : r \in {p \in proxies : p.host = h}}]
        BY DEF ProxyInit
    <2>3. \A h \in Host : {r.name : r \in {p \in proxies : p.host = h}} \in SUBSET Name
        BY <2>1
    <2>4. accounts \in [Host -> SUBSET Name] BY <2>2, <2>3
    <2>5. ASSUME NEW r \in proxies PROVE r.name \in accounts[r.host]
        <3>1. r \in {p \in proxies : p.host = r.host} OBVIOUS
        <3>2. accounts[r.host] = {q.name : q \in {p \in proxies : p.host = r.host}}
            BY <2>1, <2>2
        <3> QED BY <3>1, <3>2
    <2> QED BY <2>4, <2>5 DEF ProxyInit
<1>3. /\ messages = {} /\ errand = [w \in Agent |-> Idle] /\ failures = 0
      /\ names = {r.name : r \in proxies} /\ touched = {} /\ raced = FALSE
    BY DEF ProxyInit
<1>4. \A r \in proxies : r.name \in names BY <1>3
<1>5. ProxyTypeOK BY <1>1, <1>2, <1>3, <1>4, IdleOK DEF ProxyTypeOK
<1>6. \A w \in Agent, e \in Errand : errand[w] = e => ErrandOK(e) BY <1>3, IdleOK
<1>7. DeliveredIsServed /\ DeliveredHasAccess
    BY <1>2 DEF DeliveredIsServed, DeliveredHasAccess
<1> QED BY <1>5, <1>6, <1>7 DEF ProxyInv

LEMMA NextKeeps == ProxyInv /\ [ProxyNext]_proxyVars => ProxyInv'
<1> SUFFICES ASSUME ProxyInv, [ProxyNext]_proxyVars PROVE ProxyInv' OBVIOUS
<1>1. ASSUME NEW w \in Agent, NEW o \in Order, NEW n \in Name,
             NEW hosts \in Deliveries, StartDelivery(w, o, n, hosts)
      PROVE  ProxyInv'
    BY <1>1, StartDeliveryOK
<1>2. ASSUME NEW w \in Agent, NEW a \in Answers,
             \/ MakeClient(w, a) \/ CreateUser(w, a) \/ ReadAccess(w, a)
             \/ \E g \in Host : WriteAccess(w, a, g)
             \/ DelUser(w, a) \/ ReadList(w, a) \/ WriteList(w, a)
      PROVE  ProxyInv'
    BY <1>2, MakeClientOK, CreateUserOK, ReadAccessOK, WriteAccessOK, DelUserOK,
       ReadListOK, WriteListOK
<1>3. ASSUME NEW w \in Agent,
             \/ RefusePrefix(w) \/ CreateRows(w) \/ ResetFails(w) \/ DropOld(w)
             \/ \E n \in Name : RenameUser(w, n)
             \/ \E up \in BOOLEAN : RefuseUser(w, up)
      PROVE  ProxyInv'
    BY <1>3, RefusePrefixOK, CreateRowsOK, ResetFailsOK, DropOldOK, RenameUserOK, RefuseUserOK
<1>4. ASSUME NEW r \in proxies, DeleteProxy(r) PROVE ProxyInv' BY <1>4, DeleteProxyOK
<1>5. ASSUME NEW p \in marks, MarkExpires(p) PROVE ProxyInv' BY <1>5, MarkExpiresOK
<1>6. ASSUME NEW w \in Agent, NEW p \in messages, StartDeleteTask(w, p) PROVE ProxyInv'
    BY <1>6, StartDeleteTaskOK
<1>7. ASSUME NEW w \in Agent, NEW o \in Order, StartReset(w, o) PROVE ProxyInv'
    BY <1>7, StartResetOK
<1>8. ASSUME NEW w \in Agent, NEW p \in errand[w].targets, NextTarget(w, p)
      PROVE  ProxyInv'
    BY <1>8, NextTargetOK
<1>9. ASSUME NEW w \in Agent, NEW n \in Name, NEW hosts \in Deliveries,
             CreateAgain(w, n, hosts)
      PROVE  ProxyInv'
    BY <1>9, CreateAgainOK
<1>10. CASE UNCHANGED proxyVars
    BY <1>10, Still DEF proxyVars, tables, history, ProxyInv, ProxyTypeOK
<1> QED BY <1>1, <1>2, <1>3, <1>4, <1>5, <1>6, <1>7, <1>8, <1>9, <1>10 DEF ProxyNext

(* The inductive invariant: what the server has promised to the rows that  *)
(* exist, and what every job at work on create_proxy_by_order_obj,         *)
(* reset_proxy_fn or delete_proxy_task may rely on.                        *)
THEOREM ProxyInvariant == ProxySpec => []ProxyInv
<1> QED BY InitOK, NextKeeps, PTL DEF ProxySpec

(* Types: the lists of the servers, the table and the locals of every job *)
(* keep their shape, and a message is only ever about a deleted proxy.     *)
THEOREM ProxyTypes == ProxySpec => []ProxyTypeOK
<1>1. ProxyInv => ProxyTypeOK BY DEF ProxyInv
<1> QED BY <1>1, ProxyInvariant, PTL

(* Isolation of customers: no job, whichever requests fail, takes another  *)
(* name off a server.                                                      *)
THEOREM DeliveredStaysServed == ProxySpec => []DeliveredIsServed
<1>1. ProxyInv => DeliveredIsServed BY DEF ProxyInv
<1> QED BY <1>1, ProxyInvariant, PTL

(* Without failures and lost updates of an access list, every delivered    *)
(* proxy has its lines, unless its name is one a refusal led to.           *)
THEOREM DeliveredStaysListed == ProxySpec => []DeliveredHasAccess
<1>1. ProxyInv => DeliveredHasAccess BY DEF ProxyInv
<1> QED BY <1>1, ProxyInvariant, PTL

(* Only the deletion of the old rows moves a reset that is about to do it. *)
LEMMA OnlyDrop ==
    ASSUME ProxyInv, ProxyNext, NEW w \in Agent, errand[w].pc = "drop",
           errand'[w] # errand[w]
    PROVE  DropOld(w)
<1>1. errand \in [Agent -> Errand] BY DEF ProxyInv, ProxyTypeOK
<1>2. ASSUME NEW v \in Agent, errand[v].pc # "drop",
             NEW e, errand' = [errand EXCEPT ![v] = e]
      PROVE  FALSE
    <2>1. v # w BY <1>2
    <2> QED BY <1>1, <1>2, <2>1
<1>3. ASSUME NEW v \in Agent, NEW o \in Order, NEW n \in Name,
             NEW hosts \in Deliveries, StartDelivery(v, o, n, hosts)
      PROVE  FALSE
    BY <1>2, <1>3 DEF StartDelivery, Begin, SetErrand
<1>4. ASSUME NEW v \in Agent, NEW a \in Answers,
             MakeClient(v, a) \/ CreateUser(v, a) \/ ReadAccess(v, a)
      PROVE  FALSE
    BY <1>2, <1>4 DEF MakeClient, CreateUser, ReadAccess, SetErrand
<1>5. ASSUME NEW v \in Agent, NEW a \in Answers, NEW g \in Host, WriteAccess(v, a, g)
      PROVE  FALSE
    BY <1>2, <1>5 DEF WriteAccess, SetErrand
<1>6. ASSUME NEW v \in Agent, NEW a \in Answers,
             DelUser(v, a) \/ ReadList(v, a) \/ WriteList(v, a)
      PROVE  FALSE
    BY <1>2, <1>6 DEF DelUser, ReadList, WriteList, SetErrand
<1>7. ASSUME NEW v \in Agent, RefusePrefix(v) \/ CreateRows(v) \/ ResetFails(v)
      PROVE  FALSE
    BY <1>2, <1>7 DEF RefusePrefix, CreateRows, ResetFails, SetErrand
<1>13. ASSUME NEW v \in Agent, \/ \E n \in Name : RenameUser(v, n)
                               \/ \E up \in BOOLEAN : RefuseUser(v, up)
       PROVE  FALSE
    BY <1>2, <1>13 DEF RenameUser, RefuseUser, SetErrand
<1>8. ASSUME NEW v \in Agent, DropOld(v) PROVE v = w
    BY <1>1, <1>8 DEF DropOld, SetErrand
<1>9. ASSUME \/ \E r \in proxies : DeleteProxy(r)
             \/ \E p \in marks : MarkExpires(p)
      PROVE  FALSE
    BY <1>9 DEF DeleteProxy, MarkExpires
<1>10. ASSUME NEW v \in Agent, NEW p, StartDeleteTask(v, p) \/ NextTarget(v, p)
       PROVE  FALSE
    BY <1>2, <1>10 DEF StartDeleteTask, NextTarget, SetErrand
<1>11. ASSUME NEW v \in Agent, NEW o \in Order, StartReset(v, o) PROVE FALSE
    BY <1>2, <1>11 DEF StartReset, SetErrand
<1>12. ASSUME NEW v \in Agent, NEW n \in Name, NEW hosts \in Deliveries,
              CreateAgain(v, n, hosts)
       PROVE  FALSE
    BY <1>2, <1>12 DEF CreateAgain, Begin, SetErrand
<1> QED BY <1>3, <1>4, <1>5, <1>6, <1>7, <1>8, <1>9, <1>10, <1>11, <1>12, <1>13 DEF ProxyNext

LEMMA DropReplaces ==
    ASSUME ProxyInv, NEW w \in Agent, DropOld(w),
           \A r, s \in errand[w].old : r.name = s.name
    PROVE  errand[w].old \cap proxies' = {}
<1>1. PICK e \in Errand : e = errand[w] /\ LocalOK(e) BY ErrandOf
<1>2. e.pc = "drop" /\ proxies' = proxies \ Dropped(e) BY <1>1 DEF DropOld, Delete
<1> SUFFICES ASSUME NEW r \in e.old, r \in proxies' PROVE FALSE BY <1>1
<1>3. PICK q \in e.old : e.pair = PairOf(q) BY <1>1, <1>2 DEF LocalOK
<1>4. q \in ProxyRow /\ r.name = q.name BY <1>1 DEF Errand
<1>5. e.pair # Nobody /\ r.name = e.pair[2]
    BY <1>3, <1>4, PairType, ProxyServerAssumption
<1>6. r \notin e.made BY <1>1 DEF LocalOK
<1> QED BY <1>2, <1>5, <1>6 DEF Dropped

(* A reset that gets as far as deleting rows leaves none of those it found *)
(* if they had one user name.                                              *)
THEOREM ResetLeavesNoOldRow == ProxySpec => ResetReplaces
<1>1. ProxyInv /\ [ProxyNext]_proxyVars =>
         [\A w \in Agent :
              errand[w].pc = "drop" /\ errand'[w] # errand[w]
              /\ (\A r, s \in errand[w].old : r.name = s.name)
              => errand[w].old \cap proxies' = {}]_proxyVars
    BY OnlyDrop, DropReplaces
<1> QED BY <1>1, ProxyInvariant, PTL DEF ProxySpec, ResetReplaces

-----------------------------------------------------------------------------
(* No account is left behind.                                              *)

BusyWith(e, p) ==
    \/ /\ e.pc \in {"read", "write", "rows"} /\ e.answered
       /\ p = <<Head(e.hosts), e.given>>
    \/ e.pc = "user" /\ e.pair = p

Accounted(p) ==
    \/ \E r \in proxies : PairOf(r) = p
    \/ p \in messages \cup unannounced
    \/ \E w \in Agent : BusyWith(errand[w], p)

LEMMA GoneIsAccounted ==
    DeletedIsGone <=>
        (failures = 0 => \A h \in Host : \A n \in accounts[h] : Accounted(<<h, n>>))
BY DEF DeletedIsGone, Accounted, Busy, BusyWith

(* A step of one agent: what it was busy with and what it takes out of the *)
(* tables must be accounted for afterwards.                                *)
LEMMA AgentGone ==
    ASSUME ProxyInv, DeletedIsGone, NEW w \in Agent, NEW e, e = errand[w], NEW f,
           errand' = [errand EXCEPT ![w] = f],
           failures' = 0 => failures = 0,
           \A r \in proxies : r \in proxies' \/ PairOf(r) \in messages' \cup unannounced',
           \A p \in messages : p \in messages' \/ BusyWith(f, p),
           unannounced \subseteq unannounced',
           failures' = 0 =>
               \A h \in Host : \A n \in accounts'[h] :
                   /\ n \in accounts[h] \/ Accounted(<<h, n>>)'
                   /\ BusyWith(e, <<h, n>>) => Accounted(<<h, n>>)'
    PROVE  DeletedIsGone'
<1>1. errand \in [Agent -> Errand] BY DEF ProxyInv, ProxyTypeOK
<1>2. errand'[w] = f /\ \A v \in Agent \ {w} : errand'[v] = errand[v] BY <1>1
<1>3. ASSUME NEW h \in Host, NEW n \in accounts'[h], failures' = 0
      PROVE  Accounted(<<h, n>>)'
    <2>1. CASE n \in accounts[h]
        <3>1. Accounted(<<h, n>>) BY <1>3, <2>1, GoneIsAccounted
        <3>2. ASSUME NEW r \in proxies, PairOf(r) = <<h, n>> PROVE Accounted(<<h, n>>)'
            BY <3>2 DEF Accounted, PairOf
        <3>3. ASSUME <<h, n>> \in messages PROVE Accounted(<<h, n>>)'
            BY <1>2, <3>3 DEF Accounted
        <3>4. ASSUME <<h, n>> \in unannounced PROVE Accounted(<<h, n>>)'
            BY <3>4 DEF Accounted
        <3>5. ASSUME NEW v \in Agent, BusyWith(errand[v], <<h, n>>)
              PROVE  Accounted(<<h, n>>)'
            <4>1. CASE v = w BY <1>3, <3>5, <4>1
            <4>2. CASE v # w BY <1>2, <3>5, <4>2 DEF Accounted
            <4> QED BY <4>1, <4>2
        <3> QED BY <3>1, <3>2, <3>3, <3>4, <3>5 DEF Accounted
    <2>2. CASE n \notin accounts[h] BY <1>3, <2>2
    <2> QED BY <2>1, <2>2
<1> QED BY <1>3, GoneIsAccounted DEF DeletedIsGone, Accounted, Busy, BusyWith

(* A step of a job that is not at work on an account. *)
LEMMA FreeGone ==
    ASSUME ProxyInv, DeletedIsGone, NEW w \in Agent,
           errand[w].pc \notin {"read", "write", "rows", "user"},
           NEW f, errand' = [errand EXCEPT ![w] = f],
           failures' = 0 => failures = 0, UNCHANGED accounts,
           \A r \in proxies : r \in proxies' \/ PairOf(r) \in messages' \cup unannounced',
           \A p \in messages : p \in messages' \/ BusyWith(f, p),
           unannounced \subseteq unannounced'
    PROVE  DeletedIsGone'
<1>1. \A p : ~BusyWith(errand[w], p) BY DEF BusyWith
<1> QED BY <1>1, AgentGone

(* A request for the access list of the server whose rows are to come. *)
LEMMA SameGone ==
    ASSUME ProxyInv, DeletedIsGone, NEW w \in Agent, NEW e, e = errand[w],
           NEW f, errand' = [errand EXCEPT ![w] = f], failures' = 0 => failures = 0,
           e.pc # "user",
           failures' = 0 => /\ f.pc \in {"read", "write", "rows"}
                            /\ f.given = e.given /\ f.hosts = e.hosts
                            /\ f.answered = e.answered,
           UNCHANGED <<accounts, proxies, messages, unannounced>>
    PROVE  DeletedIsGone'
<1>1. errand'[w] = f BY DEF ProxyInv, ProxyTypeOK
<1>2. ASSUME failures' = 0, NEW h \in Host, NEW n \in accounts'[h],
             BusyWith(e, <<h, n>>)
      PROVE  Accounted(<<h, n>>)'
    <2>1. BusyWith(f, <<h, n>>) BY <1>2 DEF BusyWith
    <2> QED BY <1>1, <2>1 DEF Accounted
<1> QED BY <1>2, AgentGone

LEMMA StartsGone ==
    ASSUME ProxyInv, DeletedIsGone, NEW w \in Agent,
           \/ \E o \in Order, n \in Name, hosts \in Deliveries : StartDelivery(w, o, n, hosts)
           \/ \E n \in Name, hosts \in Deliveries : CreateAgain(w, n, hosts)
           \/ \E o \in Order : StartReset(w, o)
           \/ \E p \in errand[w].targets : NextTarget(w, p)
           \/ ResetFails(w)
           \/ \E n \in Name : RenameUser(w, n)
           \/ \E up \in BOOLEAN : RefuseUser(w, up)
           \/ RefusePrefix(w)
    PROVE  DeletedIsGone'
<1>1. errand[w].pc \in {"idle", "each", "create"}
    BY DEF StartDelivery, CreateAgain, StartReset, NextTarget, ResetFails, RenameUser,
           RefuseUser, RefusePrefix
<1>2. UNCHANGED <<accounts, proxies, messages, failures, unannounced>>
    BY DEF StartDelivery, CreateAgain, StartReset, NextTarget, ResetFails, Begin,
           RenameUser, RefuseUser, RefusePrefix, servers, tables, history
<1>3. \E f : errand' = [errand EXCEPT ![w] = f]
    BY DEF StartDelivery, CreateAgain, StartReset, NextTarget, ResetFails, Begin,
           RenameUser, RefuseUser, RefusePrefix, SetErrand
<1> QED BY <1>1, <1>2, <1>3, FreeGone

LEMMA StartDeleteTaskGone ==
    ASSUME ProxyInv, DeletedIsGone, NEW w \in Agent, NEW p \in messages,
           StartDeleteTask(w, p)
    PROVE  DeletedIsGone'
<1>1. PICK i \in Errand : i = Idle BY IdleOK
<1>2. p \in Host \X Name BY DEF ProxyInv, ProxyTypeOK
<1> DEFINE f == [i EXCEPT !.kind = "delete", !.pc = "user", !.pair = p]
<1>3. f.pc = "user" /\ f.pair = p BY DEF Errand
<1>4. errand' = [errand EXCEPT ![w] = f] /\ errand[w].pc = "idle"
    BY <1>1 DEF StartDeleteTask, SetErrand
<1>5. UNCHANGED <<servers, proxies, failures, history>> /\ messages' = messages \ {p}
    BY DEF StartDeleteTask
<1> HIDE DEF f
<1>6. \A q \in messages : q \in messages' \/ BusyWith(f, q) BY <1>3, <1>5 DEF BusyWith
<1> QED BY <1>4, <1>5, <1>6, FreeGone DEF servers, history

LEMMA DeleteGone ==
    ASSUME NEW deleted, Delete(deleted)
    PROVE  /\ \A r \in proxies : r \in proxies' \/ PairOf(r) \in messages' \cup unannounced'
           /\ messages \subseteq messages' /\ unannounced \subseteq unannounced'
<1>1. \A r \in deleted : PairOf(r) \in {PairOf(q) : q \in deleted} OBVIOUS
<1> QED BY <1>1 DEF Delete

LEMMA DropOldGone ==
    ASSUME ProxyInv, DeletedIsGone, NEW w \in Agent, DropOld(w)
    PROVE  DeletedIsGone'
<1>1. /\ Delete(Dropped(errand[w])) /\ errand[w].pc = "drop"
      /\ errand' = [errand EXCEPT ![w] = Idle] /\ UNCHANGED <<servers, failures>>
    BY DEF DropOld, SetErrand
<1> QED BY <1>1, DeleteGone, FreeGone DEF servers

LEMMA ListGone ==
    ASSUME ProxyInv, DeletedIsGone, NEW w \in Agent, NEW a \in Answers,
           ReadList(w, a) \/ WriteList(w, a)
    PROVE  DeletedIsGone'
<1>1. failures' = 0 => failures = 0 BY FailuresCounted DEF ReadList, WriteList
<1>2. UNCHANGED <<accounts, proxies, messages, unannounced>>
    BY DEF ReadList, WriteList, servers, tables, history
<1>3. errand[w].pc \in {"list", "unlist"} BY DEF ReadList, WriteList
<1>4. \E f : errand' = [errand EXCEPT ![w] = f] BY DEF ReadList, WriteList, SetErrand
<1> QED BY <1>1, <1>2, <1>3, <1>4, FreeGone

LEMMA MakeClientGone ==
    ASSUME ProxyInv, DeletedIsGone, NEW w \in Agent, NEW a \in Answers, MakeClient(w, a)
    PROVE  DeletedIsGone'
<1>1. failures' = 0 => failures = 0 BY FailuresCounted DEF MakeClient
<1>2. UNCHANGED <<accounts, proxies, messages, unannounced>> /\ errand[w].pc = "client"
    BY DEF MakeClient, servers, tables, history
<1>3. \E f : errand' = [errand EXCEPT ![w] = f] BY DEF MakeClient, SetErrand
<1> QED BY <1>1, <1>2, <1>3, FreeGone

LEMMA ReadAccessGone ==
    ASSUME ProxyInv, DeletedIsGone, NEW w \in Agent, NEW a \in Answers, ReadAccess(w, a)
    PROVE  DeletedIsGone'
<1>1. PICK e \in Errand : e = errand[w] BY ErrandOf
<1>2. failures' = 0 => failures = 0 /\ a.ok BY FailuresCounted DEF ReadAccess
<1>3. PICK text, down : text = access[Head(e.hosts)] /\ down = DownAfter(e, a.up) OBVIOUS
<1> DEFINE f == [e EXCEPT !.text = text, !.down = down, !.pc = "write"]
<1>4. /\ f.pc = "write" /\ f.given = e.given /\ f.hosts = e.hosts
      /\ f.answered = e.answered
    BY DEF Errand
<1>5. PICK g : errand' = [errand EXCEPT ![w] = g] /\ (a.ok => g = f)
    <2>1. CASE a.ok BY <1>1, <1>3, <2>1 DEF ReadAccess, SetErrand
    <2>2. CASE ~a.ok BY <2>2 DEF ReadAccess, SetErrand
    <2> QED BY <2>1, <2>2
<1>6. UNCHANGED <<accounts, proxies, messages, unannounced>> /\ e.pc = "read"
    BY <1>1 DEF ReadAccess, servers, tables, history
<1> HIDE DEF f
<1>7. failures' = 0 => /\ g.pc = "write" /\ g.given = e.given /\ g.hosts = e.hosts
                       /\ g.answered = e.answered
    BY <1>2, <1>4, <1>5
<1> QED BY <1>1, <1>2, <1>5, <1>6, <1>7, SameGone

LEMMA WriteAccessGone ==
    ASSUME ProxyInv, DeletedIsGone, NEW w \in Agent, NEW a \in Answers, NEW h \in Host,
           WriteAccess(w, a, h)
    PROVE  DeletedIsGone'
<1>1. PICK e \in Errand : e = errand[w] BY ErrandOf
<1>2. failures' = 0 => failures = 0 BY FailuresCounted DEF WriteAccess
<1>3. PICK unset, down, pc :
          /\ unset = IF a.ok THEN e.unset \ {h} ELSE e.unset
          /\ down = DownAfter(e, a.up)
          /\ pc = IF e.turn = {h} THEN "rows" ELSE "read"
    OBVIOUS
<1> DEFINE f == [e EXCEPT !.unset = unset, !.turn = @ \ {h}, !.down = down, !.pc = pc]
<1>4. /\ f.pc = pc /\ f.given = e.given /\ f.hosts = e.hosts
      /\ f.answered = e.answered
    BY DEF Errand
<1>5. errand' = [errand EXCEPT ![w] = f] BY <1>1, <1>3 DEF WriteAccess, SetErrand
<1>6. UNCHANGED <<accounts, proxies, messages, unannounced>> /\ e.pc = "write"
    BY <1>1 DEF WriteAccess, tables
<1> HIDE DEF f
<1>7. f.pc \in {"read", "write", "rows"} BY <1>3, <1>4
<1> QED BY <1>1, <1>2, <1>4, <1>5, <1>6, <1>7, SameGone

LEMMA CreateUserGone ==
    ASSUME ProxyInv, DeletedIsGone, NEW w \in Agent, NEW a \in Answers, CreateUser(w, a)
    PROVE  DeletedIsGone'
<1>1. PICK e \in Errand : e = errand[w] /\ ErrandOK(e) /\ LocalOK(e) BY ErrandOf
<1>2. e.pc = "create" BY <1>1 DEF CreateUser
<1>3. PICK h \in Host : h = Head(e.hosts) BY <1>1, <1>2, HeadType DEF Creating
<1>4. failures' = 0 => failures = 0 /\ a.ok BY FailuresCounted DEF CreateUser
<1>5. PICK unset, pc, listed, down :
          /\ unset = e.unset \cup ({Head(e.hosts)} \ e.listed)
          /\ pc = (IF unset = {} THEN "rows" ELSE "read")
          /\ listed = e.listed \cup {Head(e.hosts)} /\ down = DownAfter(e, a.up)
    OBVIOUS
<1> DEFINE f == [e EXCEPT !.answered = a.ok, !.down = down, !.listed = listed,
                          !.unset = unset, !.turn = unset, !.pc = pc]
<1>6. f.pc = pc /\ f.given = e.given /\ f.hosts = e.hosts /\ f.answered = a.ok
    BY DEF Errand
<1>7. errand' = [errand EXCEPT ![w] = f] BY <1>1, <1>5 DEF CreateUser, SetErrand, Created
<1>8. UNCHANGED <<proxies, messages, unannounced>>
    BY DEF CreateUser, tables, history
<1>9. accounts' = IF a.done THEN [accounts EXCEPT ![h] = @ \cup {e.given}] ELSE accounts
    BY <1>1, <1>3 DEF CreateUser
<1>10. accounts \in [Host -> SUBSET Name] BY DEF ProxyInv, ProxyTypeOK
<1> HIDE DEF f
<1>11. a.ok => BusyWith(f, <<h, e.given>>) BY <1>3, <1>5, <1>6 DEF BusyWith
<1>12. errand'[w] = f BY <1>7 DEF ProxyInv, ProxyTypeOK
<1>13. ASSUME failures' = 0, NEW k \in Host, NEW n \in accounts'[k]
       PROVE  n \in accounts[k] \/ Accounted(<<k, n>>)'
    <2>1. n \in accounts[k] \/ <<k, n>> = <<h, e.given>> BY <1>9, <1>10, <1>13
    <2>2. BusyWith(f, <<h, e.given>>)' BY <1>4, <1>11, <1>13 DEF BusyWith
    <2> QED BY <1>12, <2>1, <2>2 DEF Accounted
<1>14. \A p : ~BusyWith(e, p) BY <1>2 DEF BusyWith
<1> QED BY <1>1, <1>4, <1>7, <1>8, <1>13, <1>14, AgentGone

LEMMA CreateRowsGone ==
    ASSUME ProxyInv, DeletedIsGone, NEW w \in Agent, CreateRows(w)
    PROVE  DeletedIsGone'
<1>1. PICK e \in Errand : e = errand[w] /\ ErrandOK(e) /\ LocalOK(e) BY ErrandOf
<1>2. e.pc = "rows" BY <1>1 DEF CreateRows
<1> DEFINE row == [order |-> e.order, host |-> Head(e.hosts), name |-> e.given,
                   subnet |-> Len(e.hosts)]
<1>3. /\ proxies \subseteq proxies' /\ (e.answered => row \in proxies')
      /\ UNCHANGED <<accounts, messages, failures, unannounced>>
    BY <1>1 DEF CreateRows, servers, history
<1>4. \E f : errand' = [errand EXCEPT ![w] = f] BY DEF CreateRows, SetErrand
<1>5. PairOf(row) = <<Head(e.hosts), e.given>> BY DEF PairOf
<1> HIDE DEF row
<1>6. ASSUME failures' = 0, NEW h \in Host, NEW n \in Name, BusyWith(e, <<h, n>>)
      PROVE  Accounted(<<h, n>>)'
    <2>1. e.answered BY <1>2, <1>6 DEF BusyWith
    <2>2. PairOf(row) = <<h, n>> BY <1>2, <1>5, <1>6 DEF BusyWith
    <2>3. \E r \in proxies' : PairOf(r) = <<h, n>> BY <1>3, <2>1, <2>2
    <2> QED BY <2>3 DEF Accounted, PairOf
<1>7. \A h \in Host : accounts'[h] \subseteq Name BY <1>3 DEF ProxyInv, ProxyTypeOK
<1> QED BY <1>1, <1>3, <1>4, <1>6, <1>7, AgentGone

LEMMA DelUserGone ==
    ASSUME ProxyInv, DeletedIsGone, NEW w \in Agent, NEW a \in Answers, DelUser(w, a)
    PROVE  DeletedIsGone'
<1>1. PICK e \in Errand : e = errand[w] /\ ErrandOK(e) /\ LocalOK(e) BY ErrandOf
<1>2. e.pc = "user" /\ e.pair \in touched BY <1>1 DEF DelUser, ErrandOK
<1>3. PICK h \in Host, n \in Name : e.pair = <<h, n>> BY <1>2 DEF ProxyInv, ProxyTypeOK
<1>4. failures' = 0 => failures = 0 /\ a.done BY FailuresCounted DEF DelUser
<1>5. accounts' = IF a.done THEN [accounts EXCEPT ![h] = @ \ {n}] ELSE accounts
    BY <1>1, <1>3 DEF DelUser
<1>6. accounts \in [Host -> SUBSET Name] BY DEF ProxyInv, ProxyTypeOK
<1>7. UNCHANGED <<proxies, messages, unannounced>> BY DEF DelUser, tables, history
<1>8. \E f : errand' = [errand EXCEPT ![w] = f] BY DEF DelUser, SetErrand
<1>9. ASSUME failures' = 0, NEW k \in Host, NEW m \in accounts'[k]
      PROVE  m \in accounts[k] /\ ~BusyWith(e, <<k, m>>)
    BY <1>1, <1>2, <1>3, <1>4, <1>5, <1>6, <1>9 DEF BusyWith, LocalOK, Creating
<1> QED BY <1>1, <1>4, <1>7, <1>8, <1>9, AgentGone

(* A step of no agent. *)
LEMMA StillGone ==
    ASSUME ProxyInv, DeletedIsGone,
           \/ \E r \in proxies : DeleteProxy(r)
           \/ \E p \in marks : MarkExpires(p)
           \/ UNCHANGED proxyVars
    PROVE  DeletedIsGone'
<1>1. UNCHANGED <<accounts, errand, failures>>
    BY DEF DeleteProxy, MarkExpires, proxyVars, servers, history
<1>2. /\ \A r \in proxies : r \in proxies' \/ PairOf(r) \in messages' \cup unannounced'
      /\ messages \subseteq messages' /\ unannounced \subseteq unannounced'
    <2>1. CASE \E r \in proxies : DeleteProxy(r) BY <2>1, DeleteGone DEF DeleteProxy
    <2>2. CASE ~\E r \in proxies : DeleteProxy(r)
        BY <2>2 DEF MarkExpires, proxyVars, tables, history
    <2> QED BY <2>1, <2>2
<1>3. ASSUME failures' = 0, NEW h \in Host, NEW n \in accounts'[h]
      PROVE  Accounted(<<h, n>>)'
    <2>1. Accounted(<<h, n>>) BY <1>1, <1>3, GoneIsAccounted
    <2>2. (\E r \in proxies' : PairOf(r) = <<h, n>>) \/ <<h, n>> \in messages' \cup unannounced'
          \/ \E w \in Agent : BusyWith(errand'[w], <<h, n>>)
        BY <1>1, <1>2, <2>1 DEF Accounted
    <2> QED BY <2>2 DEF Accounted, PairOf, BusyWith
<1> QED BY <1>3 DEF DeletedIsGone, Accounted, Busy, BusyWith

LEMMA NextGone == ProxyInv /\ DeletedIsGone /\ [ProxyNext]_proxyVars => DeletedIsGone'
<1> SUFFICES ASSUME ProxyInv, DeletedIsGone, [ProxyNext]_proxyVars
             PROVE  DeletedIsGone'
    OBVIOUS
<1>1. ASSUME NEW w \in Agent, NEW a \in Answers,
             \/ MakeClient(w, a) \/ CreateUser(w, a) \/ ReadAccess(w, a)
             \/ \E g \in Host : WriteAccess(w, a, g)
             \/ DelUser(w, a) \/ ReadList(w, a) \/ WriteList(w, a)
      PROVE  DeletedIsGone'
    BY <1>1, MakeClientGone, CreateUserGone, ReadAccessGone, WriteAccessGone,
       DelUserGone, ListGone
<1>2. ASSUME NEW w \in Agent,
             \/ RefusePrefix(w) \/ CreateRows(w) \/ ResetFails(w) \/ DropOld(w)
             \/ \E n \in Name : RenameUser(w, n)
             \/ \E up \in BOOLEAN : RefuseUser(w, up)
      PROVE  DeletedIsGone'
    BY <1>2, CreateRowsGone, StartsGone, DropOldGone
<1>3. ASSUME NEW w \in Agent,
             \/ \E o \in Order, n \in Name, hosts \in Deliveries :
                    StartDelivery(w, o, n, hosts)
             \/ \E n \in Name, hosts \in Deliveries : CreateAgain(w, n, hosts)
             \/ \E o \in Order : StartReset(w, o)
             \/ \E p \in errand[w].targets : NextTarget(w, p)
      PROVE  DeletedIsGone'
    BY <1>3, StartsGone
<1>4. ASSUME NEW w \in Agent, NEW p \in messages, StartDeleteTask(w, p)
      PROVE  DeletedIsGone'
    BY <1>4, StartDeleteTaskGone
<1>5. ASSUME \/ \E r \in proxies : DeleteProxy(r)
             \/ \E p \in marks : MarkExpires(p)
             \/ UNCHANGED proxyVars
      PROVE  DeletedIsGone'
    BY <1>5, StillGone
<1> QED BY <1>1, <1>2, <1>3, <1>4, <1>5 DEF ProxyNext

LEMMA InitGone == ProxyInit => DeletedIsGone
<1> SUFFICES ASSUME ProxyInit, NEW h \in Host, NEW n \in accounts[h]
             PROVE  \E r \in proxies : PairOf(r) = <<h, n>>
    BY DEF DeletedIsGone
<1>1. accounts[h] = {r.name : r \in {p \in proxies : p.host = h}} BY DEF ProxyInit
<1>2. PICK r \in {p \in proxies : p.host = h} : r.name = n BY <1>1
<1> QED BY <1>2 DEF PairOf

(* While no request fails, a server has no account without a proxy, a      *)
(* message or a job at work on it, but for names whose message was stopped *)
(* by the mark of an earlier deletion.                                     *)
THEOREM NoAccountLeftBehind == ProxySpec => []DeletedIsGone
<1> QED BY InitGone, NextGone, ProxyInvariant, PTL DEF ProxySpec
=============================================================================
