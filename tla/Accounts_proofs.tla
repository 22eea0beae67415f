---------------------------- MODULE Accounts_proofs ----------------------------
(***************************************************************************)
(* What holds of Accounts for any number of users, workers, levels and     *)
(* jobs, whatever reads and saves overlap.                                 *)
(***************************************************************************)
EXTENDS Accounts, FiniteSetTheorems, WellFoundedInduction, TLAPS

-----------------------------------------------------------------------------
(* Levels and rows.                                                        *)

LEMMA HighestExists ==
    ASSUME NEW reached, reached \subseteq 1..Top, 1 \in reached
    PROVE  \E l \in reached : \A k \in reached : k <= l
<1>1. Top \in Nat BY AccountsAssumption
<1> DEFINE gaps == {Top - l : l \in reached}
<1>2. gaps \subseteq Nat /\ gaps # {} BY <1>1
<1>3. PICK g \in gaps : \A k \in gaps : <<k, g>> \notin OpToRel(<, Nat)
    BY <1>2, NatLessThanWellFounded, WFMin
<1>4. \A k \in gaps : ~(k < g) BY <1>2, <1>3 DEF OpToRel
<1>5. PICK l \in reached : g = Top - l OBVIOUS
<1>6. ASSUME NEW k \in reached PROVE k <= l
    <2>1. ~(Top - k < Top - l) BY <1>4, <1>5
    <2> QED BY <1>1, <2>1
<1> QED BY <1>6

LEMMA LevelType ==
    ASSUME levels \in [2..Top -> Nat], NEW points \in Nat
    PROVE  LevelOf(points) \in 1..Top
<1> DEFINE reached == {1} \cup {l \in 2..Top : points >= levels[l]}
<1>1. reached \subseteq 1..Top /\ 1 \in reached BY AccountsAssumption
<1>2. \E l \in reached : \A k \in reached : k <= l BY <1>1, HighestExists
<1>3. LevelOf(points) \in reached BY <1>2 DEF LevelOf
<1> QED BY <1>1, <1>3

LEMMA SavedType ==
    ASSUME levels \in [2..Top -> Nat], NEW r \in Row
    PROVE  /\ Saved(r) \in Row
           /\ Saved(r).active = r.active /\ Saved(r).password = r.password
           /\ Saved(r).discord = r.discord /\ Saved(r).points = r.points
           /\ Saved(r).rewards = r.rewards
<1>1. r.points \in Nat BY DEF Row
<1>2. LevelOf(r.points) \in 1..Top BY <1>1, LevelType
<1> QED BY <1>2 DEF Saved, Row

LEMMA NoRow == None \notin Row /\ None \notin User BY AccountsAssumption

-----------------------------------------------------------------------------
(* What a step of a worker does, whatever the action.                      *)

Columns == {"active", "password", "discord", "points", "rewards"}

Paying == {"buyer", "inviter", "reward", "record", "points"}

(* What else the program counter of a job says of its fields. *)
LocalTask(t) ==
    /\ TaskOK(t)
    /\ t.row # None => t.user # None
    /\ t.other # None => t.pc = "reward"
    /\ t.inviter # None => t.inviter # t.user
    /\ t.kind = "invite" => t.input # t.user
    /\ t.pc \in Paying => t.kind = "pay"
    /\ t.pc = "each" => t.row = None
    /\ t.pc # "each" => t.batch = NoBatch
    /\ t.pc = "log" => t.kind = "invite"
    /\ t.pc \in {"coupon", "used"} => t.kind \in {"pay", "coupon"}

Shape ==
    /\ AccountsTypeOK
    /\ \A u \in User : invitedBy[u] # u
    /\ \A w \in Worker, t \in Task : task[w] = t => LocalTask(t)

(* The job has r as its copy of user u. *)
CopyOf(t, u, r) ==
    \/ t.user = u /\ t.row = r
    \/ t.inviter = u /\ t.other = r
    \/ t.batch[u] = r

(* A copy after the step is what the table has, or the job had it before. *)
CopiesKnown(t, n) ==
    \A u \in User, r \in Row :
        CopyOf(n, u, r) =>
            \/ r = users'[u]
            \/ CopyOf(t, u, r) /\ users'[u] = users[u]

(* No user is saved; a reward may get its record. *)
SavesNothing(t, n) ==
    /\ users' = users /\ raised' = raised /\ lowered' = lowered
    /\ \/ records' = records /\ t.pc # "record" /\ n.pc # "record"
       \/ /\ t.pc = "record" /\ n.pc # "record"
          /\ records' = [records EXCEPT ![t.inviter] = @ + Reward]

(* Forms have changed the rewards of x alone. *)
NotesForms(x) ==
    /\ raised' \in [User -> Nat] /\ lowered' \in [User -> Nat]
    /\ \A u \in User \ {x} : raised'[u] = raised[u] /\ lowered'[u] = lowered[u]
    /\ raised[x] <= raised'[x] /\ lowered[x] <= lowered'[x]

(* The rewards of x change by what forms have changed them, and by gain. *)
Accounted(x, q, r, gain) ==
    r.rewards + lowered'[x] + raised[x] = q.rewards + lowered[x] + raised'[x] + gain

(* The copy q of user x is saved as r. *)
SavesRow(t, n, x, q, r) ==
    /\ CopyOf(t, x, q)
    /\ users' = [users EXCEPT ![x] = r]
    /\ records' = records
    /\ \A c \in Columns : r[c] # q[c] => c \in OwnColumns(t, x)
    /\ r.discord # q.discord => t.kind = "bind" /\ t.pc = "save" /\ r.discord = t.input
    /\ t.pc # "record"
    /\ NotesForms(x)
    /\ IF t.pc = "reward"
       THEN n.pc = "record" /\ n.inviter = x /\ Accounted(x, q, r, Reward)
       ELSE n.pc # "record" /\ Accounted(x, q, r, 0)

(* What a job saves in the column is_used. *)
SetsUsed(t) == t.kind = "pay" \/ IF t.flag = None THEN t.used ELSE t.flag

CouponMove(t, n) ==
    /\ n.pc = "used" => UNCHANGED coupons /\ n.used = coupons[n.coupon]
    /\ \/ UNCHANGED coupons
       \/ /\ t.pc = "used"
          /\ coupons' = [coupons EXCEPT ![t.coupon] = SetsUsed(t)]

DiscordMove(n) ==
    n.kind = "bind" /\ n.pc = "save" =>
        UNCHANGED users /\ \A u \in User : users[u].discord # n.input

TablesOK ==
    /\ invitedBy' \in [User -> User \cup {None}] /\ \A u \in User : invitedBy'[u] # u
    /\ levels' \in [2..Top -> Nat] /\ spawned' \in Nat /\ tasks' \in Nat

Job(w, t, n) ==
    /\ task[w] = t /\ task' = [task EXCEPT ![w] = n]
    /\ LocalTask(t) /\ LocalTask(n)
    /\ CopiesKnown(t, n)
    /\ CouponMove(t, n) /\ DiscordMove(n)
    /\ \/ SavesNothing(t, n)
       \/ \E x \in User, q, r \in Row : SavesRow(t, n, x, q, r)
    /\ TablesOK

Works(w) == \E t, n \in Task : Job(w, t, n)

-----------------------------------------------------------------------------

(* A save that no form is about changes the rewards by gain alone. *)
LEMMA NoForms ==
    ASSUME raised \in [User -> Nat], lowered \in [User -> Nat],
           UNCHANGED <<raised, lowered>>, NEW x \in User, NEW q \in Row, NEW r \in Row,
           NEW gain \in Nat, r.rewards = q.rewards + gain
    PROVE  NotesForms(x) /\ Accounted(x, q, r, gain)
BY DEF NotesForms, Accounted, Row

LEMMA NoTaskOK == NoTask \in Task /\ LocalTask(NoTask)
<1>1. NoBatch \in [User -> Row \cup {None}] BY DEF NoBatch
<1>2. NoTask \in Task BY <1>1 DEF NoTask, Task, Kind, PC
<1> QED BY <1>2 DEF LocalTask, TaskOK, NoTask, Paying, Edit

LEMMA TaskOf ==
    ASSUME Shape, NEW w \in Worker
    PROVE  \E t \in Task : task[w] = t /\ LocalTask(t)
BY DEF Shape, AccountsTypeOK

(* A job without copies. *)
LEMMA NoCopies ==
    ASSUME NEW n \in Task, n.row = None, n.other = None, n.batch = NoBatch
    PROVE  \A u \in User, r \in Row : ~CopyOf(n, u, r)
BY NoRow DEF CopyOf, NoBatch

-----------------------------------------------------------------------------
(* The actions. *)

(* The tasks jobs start with. *)
LEMMA KindTask ==
    ASSUME NEW i \in Task, NEW kind \in Kind, NEW pc \in PC
    PROVE  [i EXCEPT !.kind = kind, !.pc = pc] \in Task
BY DEF Task

LEMMA BatchTask ==
    ASSUME NEW i \in Task, NEW kind \in Kind, NEW pc \in PC,
           NEW rows \in [User -> Row \cup {None}]
    PROVE  [i EXCEPT !.kind = kind, !.pc = pc, !.batch = rows] \in Task
BY DEF Task

LEMMA CouponTask ==
    ASSUME NEW i \in Task, NEW kind \in Kind, NEW pc \in PC,
           NEW c \in Coupon \cup {None}, NEW flag \in BOOLEAN \cup {None}
    PROVE  [i EXCEPT !.kind = kind, !.coupon = c, !.flag = flag, !.pc = pc] \in Task
BY DEF Task

LEMMA OrderTask ==
    ASSUME NEW i \in Task, NEW kind \in Kind, NEW pc \in PC, NEW u \in User,
           NEW c \in Coupon \cup {None}
    PROVE  [i EXCEPT !.kind = kind, !.user = u, !.coupon = c, !.pc = pc] \in Task
BY DEF Task

(* A step that saves no user and no coupon. *)
LEMMA QuietWorks ==
    ASSUME Shape, NEW w \in Worker, NEW t \in Task, NEW n \in Task,
           task[w] = t, task' = [task EXCEPT ![w] = n],
           LocalTask(n), CopiesKnown(t, n),
           n.pc \notin {"used", "record"}, t.pc # "record",
           ~(n.kind = "bind" /\ n.pc = "save"),
           UNCHANGED <<users, records, raised, lowered, coupons>>, TablesOK
    PROVE  Works(w)
<1>1. LocalTask(t) BY DEF Shape
<1> QED BY <1>1 DEF Works, Job, CouponMove, DiscordMove, SavesNothing

LEMMA TablesKept ==
    ASSUME Shape, UNCHANGED <<invitedBy, levels>>, spawned' \in Nat, tasks' \in Nat
    PROVE  TablesOK
BY DEF TablesOK, Shape, AccountsTypeOK

LEMMA StartPayWorks ==
    ASSUME Shape, NEW w \in Worker, NEW u \in User, NEW c \in Coupon \cup {None},
           StartPay(w, u, c)
    PROVE  Works(w)
<1>1. PICK t \in Task : task[w] = t /\ LocalTask(t) BY TaskOf
<1>2. PICK i \in Task, kind \in Kind : i = NoTask /\ kind = "pay"
    BY NoTaskOK DEF Kind
<1>3. PICK pc \in {"buyer", "coupon"} : pc = IF c = None THEN "buyer" ELSE "coupon"
    OBVIOUS
<1>4. pc \in PC BY DEF PC
<1> DEFINE n == [i EXCEPT !.kind = kind, !.user = u, !.coupon = c, !.pc = pc]
<1>5. n \in Task BY <1>4, OrderTask
<1>6. /\ n.kind = kind /\ kind = "pay" /\ n.user = u /\ n.coupon = c /\ n.pc = pc
      /\ n.row = i.row /\ n.inviter = i.inviter /\ n.other = i.other
      /\ n.input = i.input /\ n.batch = i.batch
    BY <1>2 DEF Task
<1>7. /\ i.row = None /\ i.inviter = None /\ i.other = None /\ i.input = None
      /\ i.batch = NoBatch
    BY <1>2 DEF NoTask
<1>8. task' = [task EXCEPT ![w] = n] /\ t.pc = "idle"
    BY <1>1, <1>2, <1>3 DEF StartPay, StartTask, SetTask
<1>9. /\ UNCHANGED <<users, records, raised, lowered, invitedBy, coupons, levels, spawned>>
      /\ tasks' = tasks + 1
    BY DEF StartPay, StartTask
<1> HIDE DEF n
<1>10. LocalTask(n) BY <1>3, <1>5, <1>6, <1>7, NoRow DEF LocalTask, TaskOK, Paying, Edit
<1>11. CopiesKnown(t, n) BY <1>5, <1>6, <1>7, NoCopies DEF CopiesKnown
<1>12. TablesOK BY <1>9, TablesKept DEF Shape, AccountsTypeOK
<1> QED BY <1>1, <1>3, <1>5, <1>6, <1>8, <1>9, <1>10, <1>11, <1>12, QuietWorks

(* StartLevels, StartRelevel and StartCouponEdit. *)
LEMMA StartLevelsWorks ==
    ASSUME Shape, NEW w \in Worker, StartLevels(w)
    PROVE  Works(w)
<1>1. PICK t \in Task : task[w] = t /\ LocalTask(t) BY TaskOf
<1>2. PICK i \in Task, kind \in Kind : i = NoTask /\ kind = "levels"
    BY NoTaskOK DEF Kind
<1>3. "write" \in PC BY DEF PC
<1> DEFINE n == [i EXCEPT !.kind = kind, !.pc = "write"]
<1>4. n \in Task BY <1>3, KindTask
<1>5. /\ n.kind = kind /\ kind = "levels" /\ n.pc = "write" /\ n.user = i.user
      /\ n.row = i.row /\ n.inviter = i.inviter /\ n.other = i.other
      /\ n.input = i.input /\ n.batch = i.batch
    BY <1>2 DEF Task
<1>6. /\ i.row = None /\ i.inviter = None /\ i.other = None /\ i.batch = NoBatch
    BY <1>2 DEF NoTask
<1>7. task' = [task EXCEPT ![w] = n] /\ t.pc = "idle"
    BY <1>1, <1>2 DEF StartLevels, StartTask, SetTask
<1>8. /\ UNCHANGED <<users, records, raised, lowered, invitedBy, coupons, levels>>
      /\ tasks' = tasks + 1 /\ spawned' = spawned + 1
    BY DEF StartLevels, StartTask
<1> HIDE DEF n
<1>9. LocalTask(n) BY <1>4, <1>5, <1>6, NoRow DEF LocalTask, TaskOK, Paying, Edit
<1>10. CopiesKnown(t, n) BY <1>4, <1>5, <1>6, NoCopies DEF CopiesKnown
<1>11. TablesOK BY <1>8, TablesKept DEF Shape, AccountsTypeOK
<1> QED BY <1>1, <1>4, <1>5, <1>7, <1>8, <1>9, <1>10, <1>11, QuietWorks

LEMMA StartRelevelWorks ==
    ASSUME Shape, NEW w \in Worker, StartRelevel(w)
    PROVE  Works(w)
<1>1. PICK t \in Task : task[w] = t /\ LocalTask(t) BY TaskOf
<1>2. PICK i \in Task, kind \in Kind : i = NoTask /\ kind = "relevel"
    BY NoTaskOK DEF Kind
<1>3. PICK rows \in [User -> Row] : rows = users BY DEF Shape, AccountsTypeOK
<1>4. "each" \in PC /\ rows \in [User -> Row \cup {None}]
    BY DEF PC
<1> DEFINE n == [i EXCEPT !.kind = kind, !.pc = "each", !.batch = rows]
<1>5. n \in Task BY <1>4, BatchTask
<1>6. /\ n.kind = kind /\ kind = "relevel" /\ n.pc = "each" /\ n.user = i.user
      /\ n.row = i.row /\ n.inviter = i.inviter /\ n.other = i.other
      /\ n.input = i.input /\ n.batch = rows
    BY <1>2 DEF Task
<1>7. i.row = None /\ i.inviter = None /\ i.other = None BY <1>2 DEF NoTask
<1>8. task' = [task EXCEPT ![w] = n] /\ t.pc = "idle"
    BY <1>1, <1>2, <1>3 DEF StartRelevel, SetTask
<1>9. /\ UNCHANGED <<users, records, raised, lowered, invitedBy, coupons, levels, tasks>>
      /\ spawned > 0 /\ spawned' = spawned - 1
    BY DEF StartRelevel
<1> HIDE DEF n
<1>10. LocalTask(n) BY <1>5, <1>6, <1>7, NoRow DEF LocalTask, TaskOK, Paying, Edit
<1>11. CopiesKnown(t, n) BY <1>3, <1>6, <1>7, <1>9, NoRow DEF CopiesKnown, CopyOf
<1>12. TablesOK BY <1>9, TablesKept DEF Shape, AccountsTypeOK
<1> QED BY <1>1, <1>5, <1>6, <1>8, <1>9, <1>10, <1>11, <1>12, QuietWorks

LEMMA StartCouponEditWorks ==
    ASSUME Shape, NEW w \in Worker, NEW c \in Coupon, NEW flag \in BOOLEAN \cup {None},
           StartCouponEdit(w, c, flag)
    PROVE  Works(w)
<1>1. PICK t \in Task : task[w] = t /\ LocalTask(t) BY TaskOf
<1>2. PICK i \in Task, kind \in Kind : i = NoTask /\ kind = "coupon"
    BY NoTaskOK DEF Kind
<1>3. "coupon" \in PC BY DEF PC
<1> DEFINE n == [i EXCEPT !.kind = kind, !.coupon = c, !.flag = flag, !.pc = "coupon"]
<1>4. n \in Task BY <1>3, CouponTask
<1>5. /\ n.kind = kind /\ kind = "coupon" /\ n.pc = "coupon" /\ n.user = i.user /\ n.coupon = c
      /\ n.row = i.row /\ n.inviter = i.inviter /\ n.other = i.other
      /\ n.input = i.input /\ n.batch = i.batch
    BY <1>2 DEF Task
<1>6. /\ i.row = None /\ i.inviter = None /\ i.other = None /\ i.batch = NoBatch
    BY <1>2 DEF NoTask
<1>7. task' = [task EXCEPT ![w] = n] /\ t.pc = "idle"
    BY <1>1, <1>2 DEF StartCouponEdit, StartTask, SetTask
<1>8. /\ UNCHANGED <<users, records, raised, lowered, invitedBy, coupons, levels, spawned>>
      /\ tasks' = tasks + 1
    BY DEF StartCouponEdit, StartTask
<1> HIDE DEF n
<1>9. LocalTask(n)
    BY <1>4, <1>5, <1>6, NoRow, AccountsAssumption DEF LocalTask, TaskOK, Paying, Edit
<1>10. CopiesKnown(t, n) BY <1>4, <1>5, <1>6, NoCopies DEF CopiesKnown
<1>11. TablesOK BY <1>8, TablesKept DEF Shape, AccountsTypeOK
<1> QED BY <1>1, <1>4, <1>5, <1>7, <1>8, <1>9, <1>10, <1>11, QuietWorks

LEMMA ReadCouponWorks ==
    ASSUME Shape, NEW w \in Worker, ReadCoupon(w)
    PROVE  Works(w)
<1>1. PICK t \in Task : task[w] = t /\ LocalTask(t) BY TaskOf
<1>2. t.pc = "coupon" /\ t.coupon \in Coupon
    BY <1>1 DEF ReadCoupon, LocalTask, TaskOK, Task
<1>3. PICK used \in BOOLEAN : used = coupons[t.coupon]
    BY <1>2 DEF Shape, AccountsTypeOK
<1>4. "used" \in PC BY DEF PC
<1> DEFINE n == [t EXCEPT !.pc = "used", !.used = used]
<1>5. n \in Task BY <1>4 DEF Task
<1>6. /\ n.kind = t.kind /\ n.pc = "used" /\ n.user = t.user /\ n.row = t.row
      /\ n.inviter = t.inviter /\ n.other = t.other /\ n.coupon = t.coupon
      /\ n.used = used /\ n.input = t.input /\ n.batch = t.batch
    BY DEF Task
<1>7. task' = [task EXCEPT ![w] = n] BY <1>1, <1>3 DEF ReadCoupon, SetTask
<1>8. UNCHANGED <<users, records, raised, lowered, invitedBy, coupons, levels, spawned, tasks>>
    BY DEF ReadCoupon
<1> HIDE DEF n
<1>9. LocalTask(n) BY <1>1, <1>2, <1>5, <1>6, NoRow DEF LocalTask, TaskOK, Paying
<1>10. CopiesKnown(t, n) BY <1>6, <1>8 DEF CopiesKnown, CopyOf
<1>11. CouponMove(t, n) /\ DiscordMove(n)
    BY <1>3, <1>6, <1>8 DEF CouponMove, DiscordMove
<1>12. SavesNothing(t, n) BY <1>2, <1>6, <1>8 DEF SavesNothing
<1>13. TablesOK BY <1>8, TablesKept DEF Shape, AccountsTypeOK
<1> QED BY <1>1, <1>5, <1>7, <1>9, <1>10, <1>11, <1>12, <1>13 DEF Works, Job

LEMMA SaveCouponWorks ==
    ASSUME Shape, NEW w \in Worker, SaveCoupon(w)
    PROVE  Works(w)
<1>1. PICK t \in Task : task[w] = t /\ LocalTask(t) BY TaskOf
<1>2. t.pc = "used" BY <1>1 DEF SaveCoupon
<1>3. "buyer" \in PC BY DEF PC
<1> DEFINE m == [t EXCEPT !.pc = "buyer"]
<1>4. m \in Task BY <1>3 DEF Task
<1>5. /\ m.kind = t.kind /\ m.pc = "buyer" /\ m.user = t.user /\ m.row = t.row
      /\ m.inviter = t.inviter /\ m.other = t.other /\ m.coupon = t.coupon
      /\ m.input = t.input /\ m.batch = t.batch
    BY DEF Task
<1>6. task' = [task EXCEPT ![w] = IF t.kind = "pay" THEN m ELSE NoTask]
    BY <1>1 DEF SaveCoupon, SetTask
<1>7. /\ UNCHANGED <<users, records, raised, lowered, invitedBy, levels, spawned, tasks>>
      /\ coupons' = [coupons EXCEPT ![t.coupon] = SetsUsed(t)]
    BY <1>1 DEF SaveCoupon, SetsUsed
<1> HIDE DEF m
<1>8. t.kind = "pay" => LocalTask(m)
    BY <1>1, <1>2, <1>4, <1>5, NoRow DEF LocalTask, TaskOK, Paying
<1>9. CopiesKnown(t, m) BY <1>5, <1>7 DEF CopiesKnown, CopyOf
<1>10. CopiesKnown(t, NoTask)
    BY NoTaskOK, NoCopies DEF CopiesKnown, NoTask
<1>11. PICK n \in Task : /\ n = IF t.kind = "pay" THEN m ELSE NoTask
                         /\ LocalTask(n) /\ CopiesKnown(t, n) /\ n.pc \in {"buyer", "idle"}
    BY <1>4, <1>5, <1>8, <1>9, <1>10, NoTaskOK DEF NoTask
<1>12. CouponMove(t, n) /\ DiscordMove(n)
    BY <1>2, <1>7, <1>11 DEF CouponMove, DiscordMove
<1>13. SavesNothing(t, n) BY <1>2, <1>7, <1>11 DEF SavesNothing
<1>14. TablesOK BY <1>7, TablesKept DEF Shape, AccountsTypeOK
<1> QED BY <1>1, <1>6, <1>11, <1>12, <1>13, <1>14 DEF Works, Job

LEMMA ReadBuyerWorks ==
    ASSUME Shape, NEW w \in Worker, ReadBuyer(w)
    PROVE  Works(w)
<1>1. PICK t \in Task : task[w] = t /\ LocalTask(t) BY TaskOf
<1>2. t.pc = "buyer" /\ t.user \in User
    BY <1>1 DEF ReadBuyer, LocalTask, TaskOK, Task
<1>3. PICK row \in Row, inviter \in User \cup {None} :
        /\ row = users[t.user] /\ inviter = invitedBy[t.user] /\ inviter # t.user
    BY <1>2, NoRow DEF Shape, AccountsTypeOK
<1>4. PICK pc \in {"points", "inviter"} : pc = IF inviter = None THEN "points" ELSE "inviter"
    OBVIOUS
<1>5. pc \in PC BY DEF PC
<1> DEFINE n == [t EXCEPT !.row = row, !.inviter = inviter, !.pc = pc]
<1>6. n \in Task BY <1>5 DEF Task
<1>7. /\ n.kind = t.kind /\ n.pc = pc /\ n.user = t.user /\ n.row = row
      /\ n.inviter = inviter /\ n.other = t.other
      /\ n.input = t.input /\ n.batch = t.batch
    BY DEF Task
<1>8. task' = [task EXCEPT ![w] = n] BY <1>1, <1>3, <1>4 DEF ReadBuyer, SetTask
<1>9. UNCHANGED <<users, records, raised, lowered, invitedBy, coupons, levels, spawned, tasks>>
    BY DEF ReadBuyer
<1> HIDE DEF n
<1>10. LocalTask(n)
    BY <1>1, <1>2, <1>3, <1>4, <1>6, <1>7, NoRow DEF LocalTask, TaskOK, Paying
<1>11. t.other = None /\ t.batch = NoBatch BY <1>1, <1>2 DEF LocalTask
<1>12. CopiesKnown(t, n) BY <1>3, <1>7, <1>9, <1>11, NoRow DEF CopiesKnown, CopyOf, NoBatch
<1>13. TablesOK BY <1>9, TablesKept DEF Shape, AccountsTypeOK
<1>14. n.kind = "pay" BY <1>1, <1>2, <1>7 DEF LocalTask, Paying
<1> QED BY <1>1, <1>2, <1>4, <1>6, <1>7, <1>8, <1>9, <1>10, <1>12, <1>13, <1>14, QuietWorks

LEMMA ReadInviterWorks ==
    ASSUME Shape, NEW w \in Worker, ReadInviter(w)
    PROVE  Works(w)
<1>1. PICK t \in Task : task[w] = t /\ LocalTask(t) BY TaskOf
<1>2. t.pc = "inviter" /\ t.inviter \in User
    BY <1>1 DEF ReadInviter, LocalTask, TaskOK, Task
<1>3. PICK row \in Row : row = users[t.inviter] BY <1>2 DEF Shape, AccountsTypeOK
<1>4. "reward" \in PC BY DEF PC
<1> DEFINE n == [t EXCEPT !.other = row, !.pc = "reward"]
<1>5. n \in Task BY <1>4 DEF Task
<1>6. /\ n.kind = t.kind /\ n.pc = "reward" /\ n.user = t.user /\ n.row = t.row
      /\ n.inviter = t.inviter /\ n.other = row
      /\ n.input = t.input /\ n.batch = t.batch
    BY DEF Task
<1>7. task' = [task EXCEPT ![w] = n] BY <1>1, <1>3 DEF ReadInviter, SetTask
<1>8. UNCHANGED <<users, records, raised, lowered, invitedBy, coupons, levels, spawned, tasks>>
    BY DEF ReadInviter
<1> HIDE DEF n
<1>9. LocalTask(n)
    BY <1>1, <1>2, <1>3, <1>5, <1>6, NoRow DEF LocalTask, TaskOK, Paying
<1>10. CopiesKnown(t, n) BY <1>3, <1>6, <1>8 DEF CopiesKnown, CopyOf
<1>11. TablesOK BY <1>8, TablesKept DEF Shape, AccountsTypeOK
<1> QED BY <1>1, <1>2, <1>5, <1>6, <1>7, <1>8, <1>9, <1>10, <1>11, QuietWorks

LEMMA SaveRewardWorks ==
    ASSUME Shape, NEW w \in Worker, SaveReward(w)
    PROVE  Works(w)
<1>1. PICK t \in Task : task[w] = t /\ LocalTask(t) BY TaskOf
<1>2. t.pc = "reward" BY <1>1 DEF SaveReward
<1>3. PICK x \in User, q \in Row : x = t.inviter /\ q = t.other
    BY <1>1, <1>2 DEF LocalTask, TaskOK, Task
<1>4. t.kind = "pay" /\ x # t.user /\ t.batch = NoBatch
    BY <1>1, <1>2, <1>3, NoRow DEF LocalTask, Paying
<1> DEFINE p == [q EXCEPT !.rewards = @ + Reward]
<1>5. /\ p \in Row /\ p.active = q.active /\ p.password = q.password
      /\ p.discord = q.discord /\ p.points = q.points /\ p.rewards = q.rewards + Reward
    BY AccountsAssumption DEF Row
<1>6. PICK r \in Row :
        /\ r = Saved(p) /\ r.active = p.active /\ r.password = p.password
        /\ r.discord = p.discord /\ r.points = p.points /\ r.rewards = p.rewards
    BY <1>5, SavedType DEF Shape, AccountsTypeOK
<1>7. users' = [users EXCEPT ![x] = r] BY <1>1, <1>3, <1>6 DEF SaveReward
<1> HIDE DEF p
<1>8. "record" \in PC BY DEF PC
<1> DEFINE n == [t EXCEPT !.pc = "record", !.other = None]
<1>9. n \in Task BY <1>8 DEF Task
<1>10. /\ n.kind = t.kind /\ n.pc = "record" /\ n.user = t.user /\ n.row = t.row
       /\ n.inviter = t.inviter /\ n.other = None
       /\ n.input = t.input /\ n.batch = t.batch
    BY DEF Task
<1>11. task' = [task EXCEPT ![w] = n] BY <1>1 DEF SaveReward, SetTask
<1>12. UNCHANGED <<records, raised, lowered, invitedBy, coupons, levels, spawned, tasks>>
    BY DEF SaveReward
<1> HIDE DEF n
<1>13. LocalTask(n) BY <1>1, <1>2, <1>9, <1>10, NoRow DEF LocalTask, TaskOK, Paying
<1>14. \A u \in User \ {x} : users'[u] = users[u] BY <1>7 DEF Shape, AccountsTypeOK
<1>15. CopiesKnown(t, n)
    BY <1>4, <1>10, <1>14, NoRow DEF CopiesKnown, CopyOf, NoBatch
<1>16. CouponMove(t, n) /\ DiscordMove(n)
    BY <1>10, <1>12 DEF CouponMove, DiscordMove
<1>17. OwnColumns(t, x) = {"rewards"} BY <1>3, <1>4 DEF OwnColumns
<1>18. \A c \in Columns : r[c] # q[c] => c \in OwnColumns(t, x)
    BY <1>5, <1>6, <1>17 DEF Columns
<1>19. NotesForms(x) /\ Accounted(x, q, r, Reward)
    BY <1>5, <1>6, <1>12, NoForms, AccountsAssumption DEF Shape, AccountsTypeOK
<1>20. SavesRow(t, n, x, q, r)
    BY <1>2, <1>3, <1>5, <1>6, <1>7, <1>10, <1>12, <1>18, <1>19 DEF SavesRow, CopyOf
<1>21. TablesOK BY <1>12, TablesKept DEF Shape, AccountsTypeOK
<1> QED BY <1>1, <1>9, <1>11, <1>13, <1>15, <1>16, <1>20, <1>21 DEF Works, Job

LEMMA RecordRewardWorks ==
    ASSUME Shape, NEW w \in Worker, RecordReward(w)
    PROVE  Works(w)
<1>1. PICK t \in Task : task[w] = t /\ LocalTask(t) BY TaskOf
<1>2. t.pc = "record" BY <1>1 DEF RecordReward
<1>3. "points" \in PC BY DEF PC
<1> DEFINE n == [t EXCEPT !.pc = "points", !.inviter = None]
<1>4. n \in Task BY <1>3 DEF Task
<1>5. /\ n.kind = t.kind /\ n.pc = "points" /\ n.user = t.user /\ n.row = t.row
      /\ n.inviter = None /\ n.other = t.other
      /\ n.input = t.input /\ n.batch = t.batch
    BY DEF Task
<1>6. task' = [task EXCEPT ![w] = n] BY <1>1 DEF RecordReward, SetTask
<1>7. /\ UNCHANGED <<users, raised, lowered, invitedBy, coupons, levels, spawned, tasks>>
      /\ records' = [records EXCEPT ![t.inviter] = @ + Reward]
    BY <1>1 DEF RecordReward
<1> HIDE DEF n
<1>8. LocalTask(n) BY <1>1, <1>2, <1>4, <1>5, NoRow DEF LocalTask, TaskOK, Paying
<1>9. CopiesKnown(t, n)
    BY <1>1, <1>2, <1>5, <1>7, NoRow DEF CopiesKnown, CopyOf, LocalTask
<1>10. CouponMove(t, n) /\ DiscordMove(n) BY <1>5, <1>7 DEF CouponMove, DiscordMove
<1>11. SavesNothing(t, n) BY <1>2, <1>5, <1>7 DEF SavesNothing
<1>12. TablesOK BY <1>7, TablesKept DEF Shape, AccountsTypeOK
<1> QED BY <1>1, <1>4, <1>6, <1>8, <1>9, <1>10, <1>11, <1>12 DEF Works, Job

LEMMA SavePointsWorks ==
    ASSUME Shape, NEW w \in Worker, SavePoints(w)
    PROVE  Works(w)
<1>1. PICK t \in Task : task[w] = t /\ LocalTask(t) BY TaskOf
<1>2. t.pc = "points" BY <1>1 DEF SavePoints
<1>3. PICK x \in User, q \in Row : x = t.user /\ q = t.row
    BY <1>1, <1>2 DEF LocalTask, TaskOK, Task
<1>4. t.kind = "pay" /\ t.other = None /\ t.batch = NoBatch
    BY <1>1, <1>2 DEF LocalTask, Paying
<1> DEFINE p == [q EXCEPT !.points = @ + Bill]
<1>5. /\ p \in Row /\ p.active = q.active /\ p.password = q.password
      /\ p.discord = q.discord /\ p.rewards = q.rewards
    BY AccountsAssumption DEF Row
<1>6. PICK r \in Row :
        /\ r = Saved(p) /\ r.active = p.active /\ r.password = p.password
        /\ r.discord = p.discord /\ r.rewards = p.rewards
    BY <1>5, SavedType DEF Shape, AccountsTypeOK
<1>7. users' = [users EXCEPT ![x] = r] BY <1>1, <1>3, <1>6 DEF SavePoints
<1>8. "level" \in PC BY DEF PC
<1> DEFINE n == [t EXCEPT !.row = r, !.pc = "level"]
<1>9. n \in Task BY <1>8 DEF Task
<1>10. /\ n.kind = t.kind /\ n.pc = "level" /\ n.user = t.user /\ n.row = r
       /\ n.inviter = t.inviter /\ n.other = t.other
       /\ n.input = t.input /\ n.batch = t.batch
    BY DEF Task
<1>11. task' = [task EXCEPT ![w] = n] BY <1>1, <1>3, <1>6 DEF SavePoints, SetTask
<1> HIDE DEF n, p
<1>12. UNCHANGED <<records, raised, lowered, invitedBy, coupons, levels, spawned, tasks>>
    BY DEF SavePoints
<1>13. LocalTask(n) BY <1>1, <1>2, <1>9, <1>10, NoRow DEF LocalTask, TaskOK, Paying
<1>14. users'[x] = r BY <1>7 DEF Shape, AccountsTypeOK
<1>15. CopiesKnown(t, n)
    BY <1>3, <1>4, <1>10, <1>14, NoRow DEF CopiesKnown, CopyOf, NoBatch
<1>16. CouponMove(t, n) /\ DiscordMove(n)
    BY <1>10, <1>12 DEF CouponMove, DiscordMove
<1>17. OwnColumns(t, x) = {"points"} BY <1>3, <1>4 DEF OwnColumns
<1>18. \A c \in Columns : r[c] # q[c] => c \in OwnColumns(t, x)
    BY <1>5, <1>6, <1>17 DEF Columns
<1>19. r.rewards = q.rewards + 0 BY <1>5, <1>6 DEF Row
<1>20. NotesForms(x) /\ Accounted(x, q, r, 0)
    BY <1>12, <1>19, NoForms DEF Shape, AccountsTypeOK
<1>21. SavesRow(t, n, x, q, r)
    BY <1>2, <1>3, <1>5, <1>6, <1>7, <1>10, <1>12, <1>18, <1>20 DEF SavesRow, CopyOf
<1>22. TablesOK BY <1>12, TablesKept DEF Shape, AccountsTypeOK
<1> QED BY <1>1, <1>9, <1>11, <1>13, <1>15, <1>16, <1>21, <1>22 DEF Works, Job

LEMMA UpdateLevelWorks ==
    ASSUME Shape, NEW w \in Worker, UpdateLevel(w)
    PROVE  Works(w)
<1>1. PICK t \in Task : task[w] = t /\ LocalTask(t) BY TaskOf
<1>2. t.pc = "level" BY <1>1 DEF UpdateLevel
<1>3. PICK x \in User, q \in Row : x = t.user /\ q = t.row
    BY <1>1, <1>2 DEF LocalTask, TaskOK, Task
<1>4. PICK r \in Row :
        /\ r = Saved(q) /\ r.active = q.active /\ r.password = q.password
        /\ r.discord = q.discord /\ r.points = q.points /\ r.rewards = q.rewards
    BY SavedType DEF Shape, AccountsTypeOK
<1>5. users' = [users EXCEPT ![x] = r] \/ UNCHANGED users
    BY <1>1, <1>3, <1>4 DEF UpdateLevel
<1>6. PICK n \in Task : n = NoTask /\ LocalTask(n) BY NoTaskOK
<1>7. /\ n.kind = "none" /\ n.pc = "idle" /\ n.row = None /\ n.other = None
      /\ n.batch = NoBatch
    BY <1>6 DEF NoTask
<1>8. task' = [task EXCEPT ![w] = n] BY <1>6 DEF UpdateLevel, SetTask
<1>9. UNCHANGED <<records, raised, lowered, invitedBy, coupons, levels, spawned, tasks>>
    BY DEF UpdateLevel
<1>10. CopiesKnown(t, n) BY <1>7, NoCopies DEF CopiesKnown
<1>11. CouponMove(t, n) /\ DiscordMove(n)
    BY <1>7, <1>9 DEF CouponMove, DiscordMove
<1>12. \A c \in Columns : r[c] = q[c] BY <1>4 DEF Columns
<1>13. r.rewards = q.rewards + 0 BY <1>4 DEF Row
<1>14. NotesForms(x) /\ Accounted(x, q, r, 0)
    BY <1>9, <1>13, NoForms DEF Shape, AccountsTypeOK
<1>15. SavesRow(t, n, x, q, r) \/ SavesNothing(t, n)
    BY <1>2, <1>3, <1>4, <1>5, <1>7, <1>9, <1>12, <1>14 DEF SavesRow, SavesNothing, CopyOf
<1>16. TablesOK BY <1>9, TablesKept DEF Shape, AccountsTypeOK
<1> QED BY <1>1, <1>6, <1>8, <1>10, <1>11, <1>15, <1>16 DEF Works, Job

LEMMA StartEditWorks ==
    ASSUME Shape, NEW w \in Worker, NEW u \in User, NEW kind \in Edit,
           NEW input \in Password \cup DiscordId \cup User \cup Forms \cup {None},
           StartEdit(w, u, kind, input)
    PROVE  Works(w)
<1>1. PICK t \in Task : task[w] = t /\ LocalTask(t) BY TaskOf
<1>2. PICK i \in Task : i = NoTask BY NoTaskOK
<1>3. MayEdit(u, kind, input) BY DEF StartEdit
<1>4. /\ kind = "password" => input \in Password
      /\ kind = "bind" => input \in DiscordId
      /\ kind = "invite" => input \in User \ {u}
      /\ kind = "update" => input \in Forms
    <2>1. CASE kind = "password" BY <1>3, <2>1 DEF MayEdit
    <2>2. CASE kind = "bind" BY <1>3, <2>2 DEF MayEdit
    <2>3. CASE kind = "invite" BY <1>3, <2>3 DEF MayEdit
    <2>4. CASE kind = "update" BY <1>3, <2>4 DEF MayEdit
    <2> QED BY <2>1, <2>2, <2>3, <2>4
<1>5. PICK row \in Row : row = users[u] BY DEF Shape, AccountsTypeOK
<1>6. PICK pc \in {"log", "check", "save"} :
        /\ pc = CASE kind = "invite" -> "log" [] kind = "bind" -> "check"
                  [] OTHER -> "save"
        /\ pc = "log" => kind = "invite"
        /\ pc = "save" => kind # "bind"
    <2>1. CASE kind = "invite" BY <2>1
    <2>2. CASE kind = "bind" BY <2>2
    <2>3. CASE kind \notin {"invite", "bind"} BY <2>3
    <2> QED BY <2>1, <2>2, <2>3
<1>7. kind \in Kind /\ pc \in PC BY DEF Kind, PC
<1> DEFINE n == [i EXCEPT !.kind = kind, !.user = u, !.row = row, !.input = input,
                          !.pc = pc]
<1>8. n \in Task BY <1>7 DEF Task
<1>9. /\ n.kind = kind /\ n.user = u /\ n.row = row /\ n.input = input /\ n.pc = pc
      /\ n.inviter = i.inviter /\ n.other = i.other /\ n.batch = i.batch
    BY DEF Task
<1>10. i.inviter = None /\ i.other = None /\ i.batch = NoBatch BY <1>2 DEF NoTask
<1>11. task' = [task EXCEPT ![w] = n] /\ t.pc = "idle"
    BY <1>1, <1>2, <1>5, <1>6 DEF StartEdit, StartTask, SetTask
<1>12. /\ UNCHANGED <<users, records, raised, lowered, invitedBy, coupons, levels, spawned>>
       /\ tasks' = tasks + 1
    BY DEF StartEdit, StartTask
<1> HIDE DEF n
<1>13. kind # "pay" BY DEF Edit
<1>14. LocalTask(n)
    BY <1>4, <1>6, <1>8, <1>9, <1>10, <1>13, NoRow DEF LocalTask, TaskOK, Paying
<1>15. CopiesKnown(t, n)
    BY <1>5, <1>9, <1>10, <1>12, NoRow DEF CopiesKnown, CopyOf, NoBatch
<1>16. TablesOK BY <1>12, TablesKept DEF Shape, AccountsTypeOK
<1> QED BY <1>1, <1>6, <1>8, <1>9, <1>11, <1>12, <1>14, <1>15, <1>16, QuietWorks

LEMMA LogInviteWorks ==
    ASSUME Shape, NEW w \in Worker, LogInvite(w)
    PROVE  Works(w)
<1>1. PICK t \in Task : task[w] = t /\ LocalTask(t) BY TaskOf
<1>2. t.pc = "log" BY <1>1 DEF LogInvite
<1>3. t.kind = "invite" /\ t.user \in User /\ t.input \in User /\ t.input # t.user
    BY <1>1, <1>2 DEF LocalTask, TaskOK, Task
<1>4. "save" \in PC BY DEF PC
<1> DEFINE n == [t EXCEPT !.pc = "save"]
<1>5. n \in Task BY <1>4 DEF Task
<1>6. /\ n.kind = t.kind /\ n.pc = "save" /\ n.user = t.user /\ n.row = t.row
      /\ n.inviter = t.inviter /\ n.other = t.other
      /\ n.input = t.input /\ n.batch = t.batch
    BY DEF Task
<1>7. task' = [task EXCEPT ![w] = n] BY <1>1 DEF LogInvite, SetTask
<1>8. /\ UNCHANGED <<users, records, raised, lowered, coupons, levels, spawned, tasks>>
      /\ invitedBy' = [invitedBy EXCEPT ![t.input] = IF @ = None THEN t.user ELSE @]
    BY <1>1 DEF LogInvite
<1> HIDE DEF n
<1>9. LocalTask(n) BY <1>1, <1>2, <1>5, <1>6, NoRow DEF LocalTask, TaskOK, Paying
<1>10. CopiesKnown(t, n) BY <1>6, <1>8 DEF CopiesKnown, CopyOf
<1>11. /\ invitedBy' \in [User -> User \cup {None}]
       /\ \A u \in User : invitedBy'[u] # u
    BY <1>3, <1>8 DEF Shape, AccountsTypeOK
<1>12. TablesOK BY <1>8, <1>11 DEF TablesOK, Shape, AccountsTypeOK
<1> QED BY <1>1, <1>2, <1>3, <1>5, <1>6, <1>7, <1>8, <1>9, <1>10, <1>12, QuietWorks

LEMMA CheckDiscordWorks ==
    ASSUME Shape, NEW w \in Worker, CheckDiscord(w)
    PROVE  Works(w)
<1>1. PICK t \in Task : task[w] = t /\ LocalTask(t) BY TaskOf
<1>2. t.pc = "check" BY <1>1 DEF CheckDiscord
<1>3. "save" \in PC BY DEF PC
<1> DEFINE m == [t EXCEPT !.pc = "save"]
<1>4. m \in Task BY <1>3 DEF Task
<1>5. /\ m.kind = t.kind /\ m.pc = "save" /\ m.user = t.user /\ m.row = t.row
      /\ m.inviter = t.inviter /\ m.other = t.other
      /\ m.input = t.input /\ m.batch = t.batch
    BY DEF Task
<1>6. task' = [task EXCEPT ![w] = IF \E u \in User : users[u].discord = t.input
                                  THEN NoTask ELSE m]
    BY <1>1 DEF CheckDiscord, SetTask
<1>7. UNCHANGED <<users, records, raised, lowered, invitedBy, coupons, levels, spawned, tasks>>
    BY DEF CheckDiscord
<1> HIDE DEF m
<1>8. LocalTask(m) BY <1>1, <1>2, <1>4, <1>5, NoRow DEF LocalTask, TaskOK, Paying
<1>9. CopiesKnown(t, m) BY <1>5, <1>7 DEF CopiesKnown, CopyOf
<1>10. PICK i \in Task : /\ i = NoTask /\ i.pc = "idle" /\ i.kind = "none"
                         /\ LocalTask(i) /\ CopiesKnown(t, i)
    BY NoTaskOK, NoCopies DEF CopiesKnown, NoTask
<1>11. PICK n \in Task :
         /\ task' = [task EXCEPT ![w] = n] /\ LocalTask(n) /\ CopiesKnown(t, n)
         /\ \/ n.kind = "none" /\ n.pc = "idle"
            \/ n.pc = "save" /\ n.input = t.input
               /\ \A u \in User : users[u].discord # n.input
    <2>1. CASE \E u \in User : users[u].discord = t.input BY <1>6, <1>10, <2>1
    <2>2. CASE ~\E u \in User : users[u].discord = t.input
        BY <1>4, <1>5, <1>6, <1>8, <1>9, <2>2
    <2> QED BY <2>1, <2>2
<1>12. CouponMove(t, n) /\ DiscordMove(n)
    BY <1>7, <1>11 DEF CouponMove, DiscordMove
<1>13. SavesNothing(t, n) BY <1>2, <1>7, <1>11 DEF SavesNothing
<1>14. TablesOK BY <1>7, TablesKept DEF Shape, AccountsTypeOK
<1> QED BY <1>1, <1>11, <1>12, <1>13, <1>14 DEF Works, Job

(* What a request makes of its copy. *)
LEMMA EditedRow ==
    ASSUME NEW t \in Task, LocalTask(t), t.pc = "save", NEW q \in Row, q = t.row
    PROVE  /\ Edited(t) \in Row
           /\ t.kind # "update" => Edited(t).rewards = q.rewards
           /\ \A c \in Columns : Edited(t)[c] # q[c] => c \in OwnColumns(t, t.user)
           /\ Edited(t).discord # q.discord =>
                  t.kind = "bind" /\ Edited(t).discord = t.input
<1>1. t.kind \in Edit BY DEF LocalTask, TaskOK
<1>2. CASE t.kind = "login"
    <2>1. Edited(t) = q BY <1>2 DEF Edited
    <2> QED BY <2>1
<1>3. CASE t.kind = "ban"
    <2>1. Edited(t) = [q EXCEPT !.active = FALSE] BY <1>3 DEF Edited
    <2>2. OwnColumns(t, t.user) = {"active"} BY <1>3 DEF OwnColumns
    <2> QED BY <2>1, <2>2 DEF Row, Columns
<1>4. CASE t.kind = "unban"
    <2>1. Edited(t) = [q EXCEPT !.active = TRUE] BY <1>4 DEF Edited
    <2>2. OwnColumns(t, t.user) = {"active"} BY <1>4 DEF OwnColumns
    <2> QED BY <2>1, <2>2 DEF Row, Columns
<1>5. CASE t.kind = "password"
    <2>1. Edited(t) = [q EXCEPT !.password = t.input] BY <1>5 DEF Edited
    <2>2. OwnColumns(t, t.user) = {"password"} BY <1>5 DEF OwnColumns
    <2>3. t.input \in Password BY <1>5 DEF LocalTask, TaskOK
    <2> QED BY <2>1, <2>2, <2>3 DEF Row, Columns
<1>6. CASE t.kind = "bind"
    <2>1. Edited(t) = [q EXCEPT !.discord = t.input] BY <1>6 DEF Edited
    <2>2. OwnColumns(t, t.user) = {"discord"} BY <1>6 DEF OwnColumns
    <2>3. t.input \in DiscordId BY <1>6 DEF LocalTask, TaskOK
    <2> QED BY <1>6, <2>1, <2>2, <2>3 DEF Row, Columns
<1>7. CASE t.kind = "credit"
    <2>1. Edited(t) = [q EXCEPT !.points = q.points + Credit] BY <1>7 DEF Edited
    <2>2. OwnColumns(t, t.user) = {"points"} BY <1>7 DEF OwnColumns
    <2>3. q.points + Credit \in Nat BY AccountsAssumption DEF Row
    <2> DEFINE p == [q EXCEPT !.points = q.points + Credit]
    <2>4. /\ p \in Row /\ p.active = q.active /\ p.password = q.password
          /\ p.discord = q.discord /\ p.rewards = q.rewards
        BY <2>3 DEF Row
    <2>5. Edited(t) = p BY <2>1
    <2> HIDE DEF p
    <2> QED BY <2>2, <2>4, <2>5 DEF Columns
<1>8. CASE t.kind = "invite"
    <2>1. Edited(t) = [q EXCEPT !.points = q.points + Welcome] BY <1>8 DEF Edited
    <2>2. OwnColumns(t, t.user) = {"points"} BY <1>8 DEF OwnColumns
    <2>3. q.points + Welcome \in Nat BY AccountsAssumption DEF Row
    <2> DEFINE p == [q EXCEPT !.points = q.points + Welcome]
    <2>4. /\ p \in Row /\ p.active = q.active /\ p.password = q.password
          /\ p.discord = q.discord /\ p.rewards = q.rewards
        BY <2>3 DEF Row
    <2>5. Edited(t) = p BY <2>1
    <2> HIDE DEF p
    <2> QED BY <2>2, <2>4, <2>5 DEF Columns
<1>9. CASE t.kind = "update"
    <2>1. t.input \in Form
        BY <1>9, AccountsAssumption DEF LocalTask, TaskOK
    <2>2. PICK a \in BOOLEAN, p \in Nat, s \in Nat :
            /\ a = Sent(t.input, "active", q.active)
            /\ p = Sent(t.input, "points", q.points)
            /\ s = Sent(t.input, "rewards", q.rewards)
        BY <2>1 DEF Sent, Form, Row
    <2> DEFINE e == [q EXCEPT !.active = a, !.points = p, !.rewards = s]
    <2>3. Edited(t) = e BY <1>9, <2>2 DEF Edited
    <2>4. /\ e \in Row /\ e.password = q.password /\ e.discord = q.discord
          /\ e.active = a /\ e.points = p /\ e.rewards = s
        BY DEF Row
    <2> HIDE DEF e
    <2>5. OwnColumns(t, t.user) =
            {c \in {"active", "points", "rewards"} : t.input[c] # None}
        BY <1>9 DEF OwnColumns
    <2>6. \A c \in Columns : e[c] # q[c] => c \in OwnColumns(t, t.user)
        BY <2>2, <2>4, <2>5 DEF Columns, Sent
    <2> QED BY <1>9, <2>3, <2>4, <2>6
<1> QED BY <1>1, <1>2, <1>3, <1>4, <1>5, <1>6, <1>7, <1>8, <1>9 DEF Edit

(* What the history says of a form that sets the rewards of x. *)
LEMMA FormsNoted ==
    ASSUME raised \in [User -> Nat], lowered \in [User -> Nat], NEW x \in User,
           NEW q \in Row, NEW r \in Row, NoteRewards(x, q.rewards, r.rewards)
    PROVE  NotesForms(x) /\ Accounted(x, q, r, 0)
<1>1. q.rewards \in Nat /\ r.rewards \in Nat BY DEF Row
<1>2. PICK up \in Nat, dn \in Nat :
        /\ up = Excess(r.rewards, q.rewards) /\ dn = Excess(q.rewards, r.rewards)
        /\ r.rewards + dn = q.rewards + up
    BY <1>1 DEF Excess
<1>3. /\ raised' = [raised EXCEPT ![x] = @ + up]
      /\ lowered' = [lowered EXCEPT ![x] = @ + dn]
    BY <1>2 DEF NoteRewards
<1>4. raised'[x] = raised[x] + up /\ lowered'[x] = lowered[x] + dn BY <1>3
<1>5. NotesForms(x) BY <1>3, <1>4 DEF NotesForms
<1>6. Accounted(x, q, r, 0) BY <1>1, <1>2, <1>4 DEF Accounted
<1> QED BY <1>5, <1>6

LEMMA SaveEditWorks ==
    ASSUME Shape, NEW w \in Worker, SaveEdit(w)
    PROVE  Works(w)
<1>1. PICK t \in Task : task[w] = t /\ LocalTask(t) BY TaskOf
<1>2. t.pc = "save" BY <1>1 DEF SaveEdit
<1>3. PICK x \in User, q \in Row : x = t.user /\ q = t.row
    BY <1>1, <1>2 DEF LocalTask, TaskOK, Task
<1>4. t.other = None /\ t.batch = NoBatch BY <1>1, <1>2 DEF LocalTask
<1>5. PICK p \in Row :
        /\ p = Edited(t) /\ (t.kind # "update" => p.rewards = q.rewards)
        /\ \A c \in Columns : p[c] # q[c] => c \in OwnColumns(t, x)
        /\ p.discord # q.discord => t.kind = "bind" /\ p.discord = t.input
    BY <1>1, <1>2, <1>3, EditedRow
<1>6. PICK r \in Row :
        /\ r = Saved(p) /\ r.active = p.active /\ r.password = p.password
        /\ r.discord = p.discord /\ r.points = p.points /\ r.rewards = p.rewards
    BY SavedType DEF Shape, AccountsTypeOK
<1>7. users' = [users EXCEPT ![x] = r] BY <1>1, <1>3, <1>5, <1>6 DEF SaveEdit
<1>8. users'[x] = r BY <1>7 DEF Shape, AccountsTypeOK
<1>9. "level" \in PC BY DEF PC
<1> DEFINE m == [t EXCEPT !.row = r, !.pc = "level"]
<1>10. m \in Task BY <1>9 DEF Task
<1>11. /\ m.kind = t.kind /\ m.pc = "level" /\ m.user = t.user /\ m.row = r
       /\ m.inviter = t.inviter /\ m.other = t.other
       /\ m.input = t.input /\ m.batch = t.batch
    BY DEF Task
<1>12. task' = [task EXCEPT ![w] = IF t.kind = "credit" THEN m ELSE NoTask]
    BY <1>1, <1>5, <1>6 DEF SaveEdit, SetTask
<1>13. UNCHANGED <<records, invitedBy, coupons, levels, spawned, tasks>> BY DEF SaveEdit
<1> HIDE DEF m
<1>14. LocalTask(m) BY <1>1, <1>2, <1>10, <1>11, NoRow DEF LocalTask, TaskOK, Paying
<1>15. CopiesKnown(t, m)
    BY <1>3, <1>4, <1>8, <1>11, NoRow DEF CopiesKnown, CopyOf, NoBatch
<1>16. PICK i \in Task : /\ i = NoTask /\ i.pc = "idle"
                         /\ LocalTask(i) /\ CopiesKnown(t, i)
    BY NoTaskOK, NoCopies DEF CopiesKnown, NoTask
<1>17. PICK n \in Task :
         /\ task' = [task EXCEPT ![w] = n] /\ LocalTask(n) /\ CopiesKnown(t, n)
         /\ n.pc \in {"idle", "level"}
    BY <1>10, <1>11, <1>12, <1>14, <1>15, <1>16
<1>18. CouponMove(t, n) /\ DiscordMove(n)
    BY <1>13, <1>17 DEF CouponMove, DiscordMove
<1>19. \A c \in Columns : r[c] # q[c] => c \in OwnColumns(t, x)
    BY <1>5, <1>6 DEF Columns
<1>20. NotesForms(x) /\ Accounted(x, q, r, 0)
    <2>1. CASE t.kind = "update"
        <3>1. NoteRewards(x, q.rewards, r.rewards)
            BY <1>1, <1>3, <1>5, <1>6, <2>1 DEF SaveEdit
        <3> QED BY <3>1, FormsNoted DEF Shape, AccountsTypeOK
    <2>2. CASE t.kind # "update"
        <3>1. UNCHANGED <<raised, lowered>> BY <1>1, <2>2 DEF SaveEdit
        <3>2. r.rewards = q.rewards + 0 BY <1>5, <1>6, <2>2 DEF Row
        <3> QED BY <3>1, <3>2, NoForms DEF Shape, AccountsTypeOK
    <2> QED BY <2>1, <2>2
<1>21. SavesRow(t, n, x, q, r)
    BY <1>2, <1>3, <1>5, <1>6, <1>7, <1>13, <1>17, <1>19, <1>20 DEF SavesRow, CopyOf
<1>22. TablesOK BY <1>13, TablesKept DEF Shape, AccountsTypeOK
<1> QED BY <1>1, <1>17, <1>18, <1>21, <1>22 DEF Works, Job

LEMMA WriteLevelsWorks ==
    ASSUME Shape, NEW w \in Worker, NEW new \in Thresholds, WriteLevels(w, new)
    PROVE  Works(w)
<1>1. PICK t \in Task : task[w] = t /\ LocalTask(t) BY TaskOf
<1>2. PICK n \in Task : n = NoTask /\ LocalTask(n) /\ CopiesKnown(t, n)
    BY NoTaskOK, NoCopies DEF CopiesKnown, NoTask
<1>3. n.kind = "none" /\ n.pc = "idle" BY <1>2 DEF NoTask
<1>4. t.pc = "write" /\ task' = [task EXCEPT ![w] = n]
    BY <1>1, <1>2 DEF WriteLevels, SetTask
<1>5. /\ UNCHANGED <<users, records, raised, lowered, invitedBy, coupons, spawned, tasks>>
      /\ levels' = new
    BY DEF WriteLevels
<1>6. TablesOK BY <1>5, AccountsAssumption DEF TablesOK, Shape, AccountsTypeOK
<1> QED BY <1>1, <1>2, <1>3, <1>4, <1>5, <1>6, QuietWorks

LEMMA RelevelUserWorks ==
    ASSUME Shape, NEW w \in Worker, NEW x \in User, RelevelUser(w, x)
    PROVE  Works(w)
<1>1. PICK t \in Task : task[w] = t /\ LocalTask(t) BY TaskOf
<1>2. t.pc = "each" /\ t.batch[x] # None BY <1>1 DEF RelevelUser
<1>3. PICK q \in Row : q = t.batch[x] BY <1>2 DEF Task
<1>4. t.row = None /\ t.other = None BY <1>1, <1>2 DEF LocalTask
<1>5. PICK r \in Row :
        /\ r = Saved(q) /\ r.active = q.active /\ r.password = q.password
        /\ r.discord = q.discord /\ r.points = q.points /\ r.rewards = q.rewards
    BY SavedType DEF Shape, AccountsTypeOK
<1> DEFINE left == [t.batch EXCEPT ![x] = None]
           m    == [t EXCEPT !.batch = left]
<1>6. left \in [User -> Row \cup {None}] BY DEF Task
<1>7. m \in Task BY <1>6 DEF Task
<1>8. /\ m.kind = t.kind /\ m.pc = t.pc /\ m.user = t.user /\ m.row = t.row
      /\ m.inviter = t.inviter /\ m.other = t.other
      /\ m.input = t.input /\ m.batch = left /\ m.coupon = t.coupon
    BY DEF Task
<1>9. \/ /\ users' = [users EXCEPT ![x] = r]
         /\ task' = [task EXCEPT ![w] = NoTask] \/ task' = [task EXCEPT ![w] = m]
      \/ UNCHANGED users /\ task' = [task EXCEPT ![w] = NoTask]
    BY <1>1, <1>3, <1>5 DEF RelevelUser, SetTask
<1>10. UNCHANGED <<records, raised, lowered, invitedBy, coupons, levels, spawned, tasks>>
    BY DEF RelevelUser
<1>11. left[x] = None /\ \A u \in User \ {x} : left[u] = t.batch[u] BY DEF Task
<1> HIDE DEF m, left
<1>12. LocalTask(m) BY <1>1, <1>2, <1>7, <1>8 DEF LocalTask, TaskOK, Paying
<1>13. users' = [users EXCEPT ![x] = r] => CopiesKnown(t, m)
    BY <1>4, <1>8, <1>11, NoRow DEF CopiesKnown, CopyOf, Shape, AccountsTypeOK
<1>14. PICK i \in Task : /\ i = NoTask /\ i.pc = "idle"
                         /\ LocalTask(i) /\ CopiesKnown(t, i)
    BY NoTaskOK, NoCopies DEF CopiesKnown, NoTask
<1>15. PICK n \in Task :
         /\ task' = [task EXCEPT ![w] = n] /\ LocalTask(n) /\ CopiesKnown(t, n)
         /\ n.pc \in {"idle", "each"}
         /\ users' = [users EXCEPT ![x] = r] \/ UNCHANGED users
    BY <1>2, <1>7, <1>8, <1>9, <1>12, <1>13, <1>14
<1>16. CouponMove(t, n) /\ DiscordMove(n)
    BY <1>10, <1>15 DEF CouponMove, DiscordMove
<1>17. \A c \in Columns : r[c] = q[c] BY <1>5 DEF Columns
<1>18. r.rewards = q.rewards + 0 BY <1>5 DEF Row
<1>19. NotesForms(x) /\ Accounted(x, q, r, 0)
    BY <1>10, <1>18, NoForms DEF Shape, AccountsTypeOK
<1>20. SavesRow(t, n, x, q, r) \/ SavesNothing(t, n)
    BY <1>2, <1>3, <1>5, <1>10, <1>15, <1>17, <1>19 DEF SavesRow, SavesNothing, CopyOf
<1>21. TablesOK BY <1>10, TablesKept DEF Shape, AccountsTypeOK
<1> QED BY <1>1, <1>15, <1>16, <1>20, <1>21 DEF Works, Job

LEMMA StepWorks == Shape /\ AccountsStep => \E w \in Worker : Works(w)
<1> SUFFICES ASSUME Shape, NEW w \in Worker,
             \/ \E u \in User, c \in Coupon \cup {None} : StartPay(w, u, c)
             \/ ReadCoupon(w) \/ SaveCoupon(w)
             \/ ReadBuyer(w) \/ ReadInviter(w) \/ SaveReward(w)
             \/ RecordReward(w) \/ SavePoints(w) \/ UpdateLevel(w)
             \/ \E u \in User, kind \in Edit,
                   input \in Password \cup DiscordId \cup User \cup Forms \cup {None} :
                      StartEdit(w, u, kind, input)
             \/ LogInvite(w) \/ CheckDiscord(w) \/ SaveEdit(w)
             \/ StartLevels(w) \/ StartRelevel(w)
             \/ \E new \in Thresholds : WriteLevels(w, new)
             \/ \E u \in User : RelevelUser(w, u)
             \/ \E c \in Coupon, flag \in BOOLEAN \cup {None} : StartCouponEdit(w, c, flag)
             PROVE  Works(w)
    BY DEF AccountsStep
<1> QED BY StartPayWorks, ReadCouponWorks, SaveCouponWorks, ReadBuyerWorks,
           ReadInviterWorks, SaveRewardWorks, RecordRewardWorks, SavePointsWorks,
           UpdateLevelWorks, StartEditWorks, LogInviteWorks, CheckDiscordWorks,
           SaveEditWorks, StartLevelsWorks, StartRelevelWorks, WriteLevelsWorks,
           RelevelUserWorks, StartCouponEditWorks

-----------------------------------------------------------------------------
(* Types.                                                                  *)

LEMMA ShapeKept ==
    ASSUME Shape, NEW w \in Worker, NEW t \in Task, NEW n \in Task, Job(w, t, n),
           overlap' \in BOOLEAN
    PROVE  Shape'
<1>1. LocalTask(t) /\ LocalTask(n) /\ task' = [task EXCEPT ![w] = n] BY DEF Job
<1>2. t.pc = "record" => t.inviter \in User BY <1>1 DEF LocalTask, TaskOK, Task
<1>3. /\ users' \in [User -> Row] /\ records' \in [User -> Nat]
      /\ raised' \in [User -> Nat] /\ lowered' \in [User -> Nat]
    <2>1. CASE SavesNothing(t, n)
        BY <1>2, <2>1, AccountsAssumption DEF SavesNothing, Shape, AccountsTypeOK
    <2>2. CASE \E x \in User, q, r \in Row : SavesRow(t, n, x, q, r)
        BY <2>2 DEF SavesRow, NotesForms, Shape, AccountsTypeOK
    <2> QED BY <2>1, <2>2 DEF Job
<1>4. coupons' \in [Coupon -> BOOLEAN]
    <2>1. SetsUsed(t) \in BOOLEAN BY DEF Task, SetsUsed
    <2> QED BY <2>1 DEF Job, CouponMove, Shape, AccountsTypeOK
<1>5. task' \in [Worker -> Task] BY <1>1 DEF Shape, AccountsTypeOK
<1>6. ASSUME NEW v \in Worker, NEW f \in Task, task'[v] = f PROVE LocalTask(f)
    <2>1. CASE v = w
        <3>1. f = n BY <1>1, <1>6, <2>1 DEF Shape, AccountsTypeOK
        <3> QED BY <1>1, <3>1
    <2>2. CASE v # w
        <3>1. task[v] = f BY <1>1, <1>6, <2>2 DEF Shape, AccountsTypeOK
        <3> QED BY <3>1 DEF Shape
    <2> QED BY <2>1, <2>2
<1>7. \A v \in Worker : TaskOK(task'[v]) BY <1>5, <1>6 DEF LocalTask
<1>8. TablesOK BY DEF Job
<1>9. AccountsTypeOK'
    BY <1>3, <1>4, <1>5, <1>7, <1>8 DEF AccountsTypeOK, TablesOK, TaskOK
<1> QED BY <1>6, <1>8, <1>9 DEF Shape, TablesOK, LocalTask, TaskOK

LEMMA ShapeInit == AccountsInit => Shape
<1> SUFFICES ASSUME AccountsInit PROVE Shape OBVIOUS
<1>1. /\ users \in [User -> [active : {TRUE}, password : {CHOOSE p \in Password : TRUE},
                            discord : {None}, points : {0}, rewards : {0}, level : {1}]]
      /\ records = [u \in User |-> 0] /\ invitedBy = [u \in User |-> None]
      /\ raised = [u \in User |-> 0] /\ lowered = [u \in User |-> 0]
      /\ coupons = [c \in Coupon |-> FALSE] /\ levels \in Thresholds
      /\ task = [w \in Worker |-> NoTask]
      /\ spawned = 0 /\ tasks = 0 /\ overlap = FALSE
    BY DEF AccountsInit
<1>2. users \in [User -> Row]
    <2>1. PICK p \in Password : p = CHOOSE q \in Password : TRUE BY AccountsAssumption
    <2>2. 1 \in 1..Top BY AccountsAssumption
    <2> DEFINE First == [active : {TRUE}, password : {p}, discord : {None}, points : {0},
                         rewards : {0}, level : {1}]
    <2>3. ASSUME NEW r \in First PROVE r \in Row
        <3>1. r = [active |-> TRUE, password |-> p, discord |-> None, points |-> 0,
                   rewards |-> 0, level |-> 1]
            OBVIOUS
        <3> QED BY <2>2, <3>1 DEF Row
    <2> QED BY <1>1, <2>1, <2>3
<1>3. \A w \in Worker : task[w] = NoTask /\ LocalTask(NoTask) /\ NoTask \in Task
    BY <1>1, NoTaskOK
<1>4. AccountsTypeOK
    BY <1>1, <1>2, <1>3, NoTaskOK, AccountsAssumption DEF AccountsTypeOK, LocalTask
<1> QED BY <1>1, <1>3, <1>4, NoRow DEF Shape

-----------------------------------------------------------------------------
(* Rewards and copies.                                                     *)

LEMMA BackedType ==
    ASSUME Shape, NEW u \in User
    PROVE  /\ IsFiniteSet(Unrecorded(u)) /\ Cardinality(Unrecorded(u)) \in Nat
           /\ Backed(u) \in Nat
<1>1. IsFiniteSet(Unrecorded(u))
    BY FS_Subset, AccountsAssumption DEF Unrecorded
<1>2. Cardinality(Unrecorded(u)) \in Nat BY <1>1, FS_CardinalityType
<1>3. records[u] \in Nat /\ Reward \in Nat
    BY AccountsAssumption DEF Shape, AccountsTypeOK
<1>4. Reward * Cardinality(Unrecorded(u)) \in Nat BY <1>2, <1>3
<1> QED BY <1>1, <1>2, <1>3, <1>4 DEF Backed

LEMMA BackedNext ==
    ASSUME Shape', NEW u \in User
    PROVE  Backed(u)' \in Nat
<1>1. Unrecorded(u)' \in SUBSET Worker BY DEF Unrecorded
<1>2. IsFiniteSet(Unrecorded(u)') BY <1>1, FS_Subset, AccountsAssumption
<1>3. Cardinality(Unrecorded(u)') \in Nat BY <1>2, FS_CardinalityType
<1>4. records'[u] \in Nat /\ Reward \in Nat
    BY AccountsAssumption DEF Shape, AccountsTypeOK
<1>5. Reward * Cardinality(Unrecorded(u)') \in Nat BY <1>3, <1>4
<1> QED BY <1>3, <1>4, <1>5 DEF Backed

LEMMA MoreTimes == ASSUME NEW k \in Nat, NEW c \in Nat
                   PROVE  k * (c + 1) = k * c + k
OBVIOUS

(* What is backed does not change when a reward gets its record. *)
LEMMA BackedKept ==
    ASSUME Shape, NEW w \in Worker, NEW t \in Task, NEW n \in Task, Job(w, t, n),
           SavesNothing(t, n), NEW u \in User
    PROVE  Backed(u)' = Backed(u)
<1>1. /\ task \in [Worker -> Task] /\ task[w] = t /\ task' = [task EXCEPT ![w] = n]
      /\ records \in [User -> Nat]
    BY DEF Job, Shape, AccountsTypeOK
<1>2. CASE records' = records /\ t.pc # "record" /\ n.pc # "record"
    <2>1. Unrecorded(u)' = Unrecorded(u) BY <1>1, <1>2 DEF Unrecorded
    <2> QED BY <1>2, <2>1 DEF Backed
<1>3. CASE /\ t.pc = "record" /\ n.pc # "record"
           /\ records' = [records EXCEPT ![t.inviter] = @ + Reward]
    <2>1. CASE u = t.inviter
        <3>1. Unrecorded(u)' = Unrecorded(u) \ {w} /\ w \in Unrecorded(u)
            BY <1>1, <1>3, <2>1 DEF Unrecorded
        <3>2. PICK k, c \in Nat :
                /\ k = Reward /\ c = Cardinality(Unrecorded(u))
                /\ Cardinality(Unrecorded(u)') = c - 1
            <4>1. IsFiniteSet(Unrecorded(u)) /\ Cardinality(Unrecorded(u)) \in Nat
                BY BackedType
            <4>2. Cardinality(Unrecorded(u) \ {w}) = Cardinality(Unrecorded(u)) - 1
                BY <3>1, <4>1, FS_RemoveElement
            <4>3. Reward \in Nat BY AccountsAssumption
            <4> QED BY <3>1, <4>1, <4>2, <4>3
        <3>3. c # 0 BY <3>1, <3>2, FS_EmptySet, BackedType
        <3>4. PICK d \in Nat : d = c - 1 /\ c = d + 1 BY <3>3
        <3>5. records'[u] = records[u] + k /\ records[u] \in Nat BY <1>1, <1>3, <2>1, <3>2
        <3>6. k * c = k * d + k /\ k * d \in Nat BY <3>4, MoreTimes
        <3>7. Backed(u)' = records'[u] + k * d BY <3>2, <3>4 DEF Backed
        <3>8. Backed(u) = records[u] + k * c BY <3>2 DEF Backed
        <3> QED BY <3>5, <3>6, <3>7, <3>8
    <2>2. CASE u # t.inviter
        <3>1. Unrecorded(u)' = Unrecorded(u) BY <1>1, <1>3, <2>2 DEF Unrecorded
        <3>2. records'[u] = records[u] BY <1>1, <1>3, <2>2
        <3> QED BY <3>1, <3>2 DEF Backed
    <2> QED BY <2>1, <2>2
<1> QED BY <1>2, <1>3 DEF SavesNothing

(* What is backed grows with a reward that is saved, and only then. *)
LEMMA BackedGrows ==
    ASSUME Shape, NEW w \in Worker, NEW t \in Task, NEW n \in Task, Job(w, t, n),
           NEW x \in User, NEW q \in Row, NEW r \in Row, SavesRow(t, n, x, q, r),
           NEW u \in User
    PROVE  Backed(u)' = Backed(u) + (IF u = x /\ t.pc = "reward" THEN Reward ELSE 0)
<1>1. /\ task \in [Worker -> Task] /\ task[w] = t /\ task' = [task EXCEPT ![w] = n]
      /\ records' = records /\ records[u] \in Nat
    BY DEF Job, SavesRow, Shape, AccountsTypeOK
<1>2. Backed(u) \in Nat BY BackedType
<1>3. t.pc # "record" BY DEF SavesRow
<1>4. CASE t.pc = "reward"
    <2>1. n.pc = "record" /\ n.inviter = x BY <1>4 DEF SavesRow
    <2>2. CASE u = x
        <3>1. Unrecorded(u)' = Unrecorded(u) \cup {w} /\ w \notin Unrecorded(u)
            BY <1>1, <1>3, <2>1, <2>2 DEF Unrecorded
        <3>2. PICK k, c \in Nat :
                /\ k = Reward /\ c = Cardinality(Unrecorded(u))
                /\ Cardinality(Unrecorded(u)') = c + 1
            <4>1. IsFiniteSet(Unrecorded(u)) /\ Cardinality(Unrecorded(u)) \in Nat
                BY BackedType
            <4>2. Cardinality(Unrecorded(u) \cup {w}) = Cardinality(Unrecorded(u)) + 1
                BY <3>1, <4>1, FS_AddElement
            <4>3. Reward \in Nat BY AccountsAssumption
            <4> QED BY <3>1, <4>1, <4>2, <4>3
        <3>3. k * (c + 1) = k * c + k BY MoreTimes
        <3>4. k * c \in Nat OBVIOUS
        <3>5. Backed(u)' = records[u] + k * (c + 1) BY <1>1, <3>2 DEF Backed
        <3>6. Backed(u) = records[u] + k * c BY <3>2 DEF Backed
        <3>7. Backed(u)' = Backed(u) + k BY <1>1, <3>3, <3>4, <3>5, <3>6
        <3> QED BY <1>4, <2>2, <3>2, <3>7
    <2>3. CASE u # x
        <3>1. Unrecorded(u)' = Unrecorded(u) BY <1>1, <1>3, <2>1, <2>3 DEF Unrecorded
        <3>2. Backed(u)' = Backed(u) BY <1>1, <3>1 DEF Backed
        <3> QED BY <1>2, <2>3, <3>2
    <2> QED BY <2>2, <2>3
<1>5. CASE t.pc # "reward"
    <2>1. n.pc # "record" BY <1>5 DEF SavesRow
    <2>2. Unrecorded(u)' = Unrecorded(u) BY <1>1, <1>3, <2>1 DEF Unrecorded
    <2>3. Backed(u)' = Backed(u) BY <1>1, <2>2 DEF Backed
    <2> QED BY <1>2, <1>5, <2>3
<1> QED BY <1>4, <1>5

(* All the rewards that payments and forms have given. *)
Total(u) == Backed(u) + raised[u]

(* No copy has more rewards than were given; none is out of date. *)
Bounded(t) == \A u \in User, r \in Row : CopyOf(t, u, r) => r.rewards <= Total(u)
Fresh(t)   == \A u \in User, r \in Row : CopyOf(t, u, r) => r = users[u]

RewardInv ==
    /\ Shape
    /\ RewardsBacked
    /\ \A w \in Worker, t \in Task : task[w] = t => Bounded(t)
    /\ ~overlap =>
          /\ JobsApart
          /\ \A u \in User : users[u].rewards + lowered[u] = Total(u)
          /\ \A w \in Worker, t \in Task : task[w] = t => Fresh(t)

LEMMA CopyIsOne ==
    ASSUME NEW t \in Task, NEW u \in User, NEW r \in Row, CopyOf(t, u, r)
    PROVE  u \in CopiesOf(t)
BY NoRow DEF CopyOf, CopiesOf

(* Only a row the worker has a copy of changes, and no other worker has    *)
(* one as long as jobs are apart.                                          *)
LEMMA OthersFresh ==
    ASSUME RewardInv, ~overlap, NEW w \in Worker, NEW t \in Task, NEW n \in Task,
           Job(w, t, n), NEW v \in Worker, v # w, NEW f \in Task, task[v] = f,
           NEW u \in User, NEW z \in Row, CopyOf(f, u, z)
    PROVE  users'[u] = users[u]
<1>1. CASE SavesNothing(t, n) BY <1>1 DEF SavesNothing
<1>2. CASE \E x \in User, q, r \in Row : SavesRow(t, n, x, q, r)
    <2>1. PICK x \in User, q \in Row, r \in Row : SavesRow(t, n, x, q, r) BY <1>2
    <2>2. x \in CopiesOf(t) /\ u \in CopiesOf(f) BY <2>1, CopyIsOne DEF SavesRow
    <2>3. task[w] = t BY DEF Job
    <2>4. CopiesOf(task[v]) \cap CopiesOf(task[w]) = {} BY DEF RewardInv, JobsApart
    <2>5. u # x BY <2>2, <2>3, <2>4
    <2> QED BY <2>1, <2>5 DEF SavesRow, RewardInv, Shape, AccountsTypeOK
<1> QED BY <1>1, <1>2 DEF Job

LEMMA RewardKept ==
    ASSUME RewardInv, NEW w \in Worker, NEW t \in Task, NEW n \in Task, Job(w, t, n),
           overlap' = (overlap \/ ~JobsApart')
    PROVE  RewardInv'
<1> Shape BY DEF RewardInv
<1>1. /\ task \in [Worker -> Task] /\ task[w] = t /\ task' = [task EXCEPT ![w] = n]
      /\ users \in [User -> Row] /\ overlap \in BOOLEAN /\ CopiesKnown(t, n)
    BY DEF Job, Shape, AccountsTypeOK
<1>2. Shape' BY <1>1, ShapeKept
<1>3. /\ raised \in [User -> Nat] /\ raised' \in [User -> Nat]
      /\ lowered \in [User -> Nat] /\ lowered' \in [User -> Nat]
      /\ \A u \in User : Backed(u) \in Nat /\ Backed(u)' \in Nat
      /\ \A u \in User : /\ Total(u) = Backed(u) + raised[u]
                        /\ Total(u)' = Backed(u)' + raised'[u]
                        /\ Total(u) \in Nat /\ Total(u)' \in Nat
    <2>1. /\ raised \in [User -> Nat] /\ raised' \in [User -> Nat]
          /\ lowered \in [User -> Nat] /\ lowered' \in [User -> Nat]
        BY <1>2 DEF Shape, AccountsTypeOK
    <2>2. \A u \in User : Backed(u) \in Nat /\ Backed(u)' \in Nat
        BY <1>2, BackedType, BackedNext
    <2>3. \A u \in User : Total(u) = Backed(u) + raised[u] /\ Total(u)' = Backed(u)' + raised'[u]
        BY DEF Total
    <2> QED BY <2>1, <2>2, <2>3
<1>4. /\ \A u \in User : Total(u) <= Total(u)'
      /\ \A u \in User : users'[u].rewards <= Total(u)'
      /\ ~overlap => \A u \in User : users'[u].rewards + lowered'[u] = Total(u)'
    <2>1. CASE SavesNothing(t, n)
        <3>1. /\ \A u \in User : Total(u)' = Total(u) /\ users'[u] = users[u]
              /\ lowered' = lowered
            BY <1>3, <2>1, BackedKept DEF SavesNothing
        <3> QED BY <1>3, <3>1 DEF RewardInv, RewardsBacked, Total
    <2>2. CASE \E x \in User, q, r \in Row : SavesRow(t, n, x, q, r)
        <3>1. PICK x \in User, q \in Row, r \in Row : SavesRow(t, n, x, q, r) BY <2>2
        <3>2. /\ CopyOf(t, x, q) /\ users'[x] = r /\ NotesForms(x)
              /\ \A u \in User \ {x} : users'[u] = users[u]
            BY <1>1, <3>1 DEF SavesRow
        <3>3. PICK gain \in Nat : Accounted(x, q, r, gain) /\ Backed(x)' = Backed(x) + gain
            <4>1. CASE t.pc = "reward"
                BY <3>1, <4>1, BackedGrows, AccountsAssumption DEF SavesRow
            <4>2. CASE t.pc # "reward" BY <3>1, <4>2, BackedGrows DEF SavesRow
            <4> QED BY <4>1, <4>2
        <3>4. \A u \in User \ {x} : Backed(u)' = Backed(u) BY <1>3, <3>1, BackedGrows
        <3>5. q.rewards <= Total(x) BY <1>1, <3>2 DEF RewardInv, Bounded
        <3>6. ~overlap => q.rewards + lowered[x] = Total(x)
            BY <1>1, <3>2 DEF RewardInv, Fresh
        <3>7. /\ r.rewards \in Nat /\ q.rewards \in Nat
              /\ raised[x] <= raised'[x] /\ lowered[x] <= lowered'[x]
              /\ r.rewards + lowered'[x] + raised[x]
                    = q.rewards + lowered[x] + raised'[x] + gain
            BY <3>2, <3>3 DEF NotesForms, Accounted, Row
        <3>8. /\ Total(x) <= Total(x)' /\ r.rewards <= Total(x)'
              /\ ~overlap => r.rewards + lowered'[x] = Total(x)'
            <4>1. PICK b, u, u1, d, d1 \in Nat :
                    /\ b = Backed(x) /\ u = raised[x] /\ u1 = raised'[x]
                    /\ d = lowered[x] /\ d1 = lowered'[x]
                BY <1>3
            <4>2. Total(x) = b + u /\ Total(x)' = b + gain + u1 BY <1>3, <3>3, <4>1
            <4>3. /\ r.rewards + d1 + u = q.rewards + d + u1 + gain /\ u <= u1 /\ d <= d1
                BY <3>7, <4>1
            <4>4. q.rewards <= b + u /\ (~overlap => q.rewards + d = b + u)
                BY <3>5, <3>6, <4>1, <4>2
            <4>5. r.rewards <= b + gain + u1 BY <3>7, <4>3, <4>4
            <4>6. ASSUME ~overlap PROVE r.rewards + d1 = b + gain + u1
                <5>1. q.rewards + d = b + u BY <4>4, <4>6
                <5> QED BY <3>7, <4>3, <5>1
            <4> QED BY <4>1, <4>2, <4>3, <4>5, <4>6
        <3>9. ASSUME NEW u \in User \ {x}
              PROVE  /\ Total(u) <= Total(u)' /\ users'[u].rewards <= Total(u)'
                     /\ ~overlap => users'[u].rewards + lowered'[u] = Total(u)'
            <4>1. Total(u)' = Total(u) /\ users'[u] = users[u] /\ lowered'[u] = lowered[u]
                BY <1>3, <3>2, <3>4 DEF NotesForms
            <4> QED BY <1>3, <4>1 DEF RewardInv, RewardsBacked, Total
        <3> QED BY <3>2, <3>8, <3>9
    <2> QED BY <2>1, <2>2 DEF Job
<1>5. ASSUME NEW v \in Worker, NEW f \in Task, task'[v] = f,
             NEW u \in User, NEW z \in Row, CopyOf(f, u, z)
      PROVE  z.rewards <= Total(u)' /\ (~overlap => z = users'[u])
    <2>1. z.rewards \in Nat BY DEF Row
    <2>2. CASE v = w
        <3>1. f = n BY <1>1, <1>5, <2>2
        <3>2. CASE z = users'[u] BY <1>4, <3>2
        <3>3. CASE CopyOf(t, u, z) /\ users'[u] = users[u]
            <4>1. z.rewards <= Total(u) BY <1>1, <3>3 DEF RewardInv, Bounded
            <4>2. ~overlap => z = users[u] BY <1>1, <3>3 DEF RewardInv, Fresh
            <4> QED BY <1>3, <1>4, <2>1, <3>3, <4>1, <4>2
        <3> QED BY <1>1, <1>5, <3>1, <3>2, <3>3 DEF CopiesKnown
    <2>3. CASE v # w
        <3>1. task[v] = f BY <1>1, <1>5, <2>3
        <3>2. z.rewards <= Total(u) BY <1>5, <3>1 DEF RewardInv, Bounded
        <3>3. ~overlap => z = users[u] BY <1>5, <3>1 DEF RewardInv, Fresh
        <3>4. ~overlap => users'[u] = users[u] BY <1>5, <2>3, <3>1, OthersFresh
        <3> QED BY <1>3, <1>4, <2>1, <3>2, <3>3, <3>4
    <2> QED BY <2>2, <2>3
<1>6. RewardsBacked' BY <1>4 DEF RewardsBacked, Total, Backed, Unrecorded
<1>7. \A v \in Worker, f \in Task : task'[v] = f => Bounded(f)'
    BY <1>5 DEF Bounded, Total, Backed, Unrecorded
<1>8. ~overlap' => \A v \in Worker, f \in Task : task'[v] = f => Fresh(f)'
    BY <1>5 DEF Fresh
<1>9. ~overlap' => JobsApart' /\ \A u \in User :
                                   users'[u].rewards + lowered'[u] = Total(u)'
    BY <1>1, <1>4
<1> QED BY <1>2, <1>6, <1>7, <1>8, <1>9 DEF RewardInv

-----------------------------------------------------------------------------
(* Coupons and Discord accounts.                                           *)

(* A job that is about to save a coupon takes its use back only if its     *)
(* form says so.                                                           *)
UsesCoupon(t) ==
    t.pc = "used" => \/ t.kind = "pay"
                     \/ t.flag # None
                     \/ coupons[t.coupon] => t.used

(* The Discord account a request is about to bind is bound to nobody. *)
BindsFree(t) ==
    t.kind = "bind" /\ t.pc = "save" => \A u \in User : users[u].discord # t.input

AccountsInv ==
    /\ RewardInv
    /\ DiscordOnce
    /\ ~overlap => \A w \in Worker, t \in Task :
                      task[w] = t => UsesCoupon(t) /\ BindsFree(t)

LEMMA CouponKept ==
    ASSUME AccountsInv, NEW w \in Worker, NEW t \in Task, NEW n \in Task, Job(w, t, n),
           ~overlap, NEW v \in Worker, NEW f \in Task, task'[v] = f
    PROVE  UsesCoupon(f)'
<1>1. /\ task \in [Worker -> Task] /\ task[w] = t /\ task' = [task EXCEPT ![w] = n]
      /\ CouponMove(t, n) /\ coupons \in [Coupon -> BOOLEAN]
    BY DEF Job, AccountsInv, RewardInv, Shape, AccountsTypeOK
<1> SUFFICES ASSUME f.pc = "used"
             PROVE  f.kind = "pay" \/ f.flag # None \/ (coupons'[f.coupon] => f.used)
    BY DEF UsesCoupon
<1>2. CASE v = w
    <2>1. f = n BY <1>1, <1>2
    <2> QED BY <1>1, <2>1 DEF CouponMove
<1>3. CASE v # w
    <2>1. task[v] = f BY <1>1, <1>3
    <2>2. f.kind = "pay" \/ f.flag # None \/ (coupons[f.coupon] => f.used)
        BY <2>1 DEF AccountsInv, UsesCoupon
    <2>3. CASE UNCHANGED coupons BY <2>2, <2>3
    <2>4. CASE /\ t.pc = "used"
               /\ coupons' = [coupons EXCEPT ![t.coupon] = SetsUsed(t)]
        <3>1. JobsApart BY DEF AccountsInv, RewardInv
        <3>2. f.coupon # t.coupon BY <1>1, <1>3, <2>1, <2>4, <3>1 DEF JobsApart
        <3>3. t.coupon \in Coupon /\ f.coupon \in Coupon
            BY <1>1, <2>1, <2>4 DEF AccountsInv, RewardInv, Shape, LocalTask, TaskOK, Task
        <3>4. coupons'[f.coupon] = coupons[f.coupon] BY <1>1, <2>4, <3>2, <3>3
        <3> QED BY <2>2, <3>4
    <2> QED BY <1>1, <2>3, <2>4 DEF CouponMove
<1> QED BY <1>2, <1>3

LEMMA DiscordKept ==
    ASSUME AccountsInv, NEW w \in Worker, NEW t \in Task, NEW n \in Task, Job(w, t, n),
           ~overlap
    PROVE  /\ \A u, v \in User : users'[u].discord # None
                                 /\ users'[u].discord = users'[v].discord => u = v
           /\ \A v \in Worker, f \in Task : task'[v] = f => BindsFree(f)'
<1>1. /\ task \in [Worker -> Task] /\ task[w] = t /\ task' = [task EXCEPT ![w] = n]
      /\ users \in [User -> Row] /\ JobsApart
    BY DEF Job, AccountsInv, RewardInv, Shape, AccountsTypeOK
<1>2. \A u, v \in User :
         users[u].discord # None /\ users[u].discord = users[v].discord => u = v
    BY DEF AccountsInv, DiscordOnce
<1>3. \/ \A u \in User : users'[u].discord = users[u].discord
      \/ /\ t.kind = "bind" /\ t.pc = "save"
         /\ \E x \in User : /\ users'[x].discord = t.input
                            /\ \A u \in User \ {x} : users'[u] = users[u]
    <2>1. CASE SavesNothing(t, n) BY <2>1 DEF SavesNothing
    <2>2. CASE \E x \in User, q, r \in Row : SavesRow(t, n, x, q, r)
        <3>1. PICK x \in User, q \in Row, r \in Row : SavesRow(t, n, x, q, r) BY <2>2
        <3>2. q = users[x] BY <1>1, <3>1 DEF SavesRow, AccountsInv, RewardInv, Fresh
        <3>3. users'[x] = r /\ \A u \in User \ {x} : users'[u] = users[u]
            BY <1>1, <3>1 DEF SavesRow
        <3>4. r.discord # q.discord =>
                 t.kind = "bind" /\ t.pc = "save" /\ r.discord = t.input
            BY <3>1 DEF SavesRow
        <3> QED BY <3>2, <3>3, <3>4
    <2> QED BY <2>1, <2>2 DEF Job
<1>4. t.kind = "bind" /\ t.pc = "save" => \A u \in User : users[u].discord # t.input
    BY <1>1 DEF AccountsInv, BindsFree
<1>5. ASSUME NEW u \in User, NEW v \in User, users'[u].discord # None,
             users'[u].discord = users'[v].discord
      PROVE  u = v
    BY <1>2, <1>3, <1>4, <1>5
<1>6. ASSUME NEW v \in Worker, NEW f \in Task, task'[v] = f, f.kind = "bind",
             f.pc = "save", NEW u \in User
      PROVE  users'[u].discord # f.input
    <2>1. CASE v = w
        <3>1. f = n BY <1>1, <1>6, <2>1
        <3> QED BY <1>6, <3>1 DEF Job, DiscordMove
    <2>2. CASE v # w
        <3>1. task[v] = f BY <1>1, <1>6, <2>2
        <3>2. users[u].discord # f.input BY <1>6, <3>1 DEF AccountsInv, BindsFree
        <3>3. t.kind # "bind" BY <1>1, <1>6, <2>2, <3>1 DEF JobsApart
        <3> QED BY <1>3, <3>2, <3>3
    <2> QED BY <2>1, <2>2
<1> QED BY <1>5, <1>6 DEF BindsFree

LEMMA AccountsKept == AccountsInv /\ [AccountsNext]_accountsVars => AccountsInv'
<1> SUFFICES ASSUME AccountsInv, [AccountsNext]_accountsVars PROVE AccountsInv' OBVIOUS
<1>1. CASE AccountsNext
    <2>1. overlap' = (overlap \/ ~JobsApart') BY <1>1 DEF AccountsNext
    <2>2. PICK w \in Worker : Works(w)
        BY <1>1, StepWorks DEF AccountsNext, AccountsInv, RewardInv
    <2>3. PICK t \in Task, n \in Task : Job(w, t, n) BY <2>2 DEF Works
    <2>4. RewardInv' BY <2>1, <2>3, RewardKept DEF AccountsInv
    <2>5. ~overlap' => ~overlap BY <2>1
    <2>6. DiscordOnce' BY <2>3, <2>5, DiscordKept DEF DiscordOnce
    <2>7. ~overlap' => \A v \in Worker, f \in Task :
                          task'[v] = f => UsesCoupon(f)' /\ BindsFree(f)'
        BY <2>3, <2>5, CouponKept, DiscordKept
    <2> QED BY <2>4, <2>6, <2>7 DEF AccountsInv
<1>2. CASE UNCHANGED accountsVars
    <2> USE <1>2 DEF accountsVars
    <2>1. Shape' BY DEF Shape, AccountsTypeOK, AccountsInv, RewardInv
    <2>2. JobsApart' <=> JobsApart BY DEF JobsApart
    <2>3. \A u \in User : Backed(u)' = Backed(u) /\ Total(u)' = Total(u)
        BY DEF Total, Backed, Unrecorded
    <2>4. RewardsBacked' BY <2>3 DEF RewardsBacked, AccountsInv, RewardInv
    <2>5. \A t \in Task : (Bounded(t) => Bounded(t)') /\ (Fresh(t) => Fresh(t)')
        BY <2>3 DEF Bounded, Fresh
    <2>6. RewardInv' BY <2>1, <2>2, <2>3, <2>4, <2>5 DEF AccountsInv, RewardInv
    <2>7. DiscordOnce' BY DEF DiscordOnce, AccountsInv
    <2>8. \A t \in Task : (UsesCoupon(t) => UsesCoupon(t)') /\ (BindsFree(t) => BindsFree(t)')
        BY DEF UsesCoupon, BindsFree
    <2> QED BY <2>6, <2>7, <2>8 DEF AccountsInv
<1> QED BY <1>1, <1>2

LEMMA AccountsStart == AccountsInit => AccountsInv
<1> SUFFICES ASSUME AccountsInit PROVE AccountsInv OBVIOUS
<1>1. Shape BY ShapeInit
<1>2. /\ \A u \in User : users[u].rewards = 0 /\ users[u].discord = None
      /\ records = [u \in User |-> 0] /\ task = [w \in Worker |-> NoTask]
      /\ raised = [u \in User |-> 0] /\ lowered = [u \in User |-> 0]
    BY DEF AccountsInit
<1>3. PICK i \in Task : /\ i = NoTask /\ i.pc = "idle" /\ i.kind = "none"
                        /\ i.row = None /\ i.other = None /\ i.batch = NoBatch
    BY NoTaskOK DEF NoTask
<1>4. \A w \in Worker : task[w] = i BY <1>2, <1>3
<1>5. \A u \in User : Backed(u) = 0 /\ Total(u) = 0
    <2> SUFFICES ASSUME NEW u \in User PROVE Backed(u) = 0 /\ Total(u) = 0 OBVIOUS
    <2>1. Unrecorded(u) = {} BY <1>3, <1>4 DEF Unrecorded
    <2>2. Cardinality(Unrecorded(u)) = 0 BY <2>1, FS_EmptySet
    <2> QED BY <1>2, <2>2, AccountsAssumption DEF Backed, Total
<1>6. Bounded(i) /\ Fresh(i) BY <1>3, NoCopies DEF Bounded, Fresh
<1>7. CopiesOf(i) = {} BY <1>3 DEF CopiesOf, NoBatch
<1>8. JobsApart BY <1>3, <1>4, <1>7 DEF JobsApart
<1>9. RewardInv BY <1>1, <1>2, <1>4, <1>5, <1>6, <1>8 DEF RewardInv, RewardsBacked
<1>10. DiscordOnce BY <1>2 DEF DiscordOnce
<1>11. UsesCoupon(i) /\ BindsFree(i) BY <1>3 DEF UsesCoupon, BindsFree
<1> QED BY <1>4, <1>9, <1>10, <1>11 DEF AccountsInv

-----------------------------------------------------------------------------
(* The theorems.                                                           *)

(* The inductive invariant: the tables of users, rewards and coupons, and  *)
(* how stale the copy of a row may be that a job is about to save.         *)
THEOREM AccountsInvariant == AccountsSpec => []AccountsInv
<1> QED BY AccountsStart, AccountsKept, PTL DEF AccountsSpec

(* Types: every job has the copies its program counter needs. *)
THEOREM AccountsTypes == AccountsSpec => []AccountsTypeOK
<1>1. AccountsInv => AccountsTypeOK BY DEF AccountsInv, RewardInv, Shape
<1> QED BY <1>1, AccountsInvariant, PTL

(* No reward that neither a record nor a form explains, whatever jobs      *)
(* overlap.                                                                *)
THEOREM RewardsAreBacked == AccountsSpec => []RewardsBacked
<1>1. AccountsInv => RewardsBacked BY DEF AccountsInv, RewardInv
<1> QED BY <1>1, AccountsInvariant, PTL

(* Unless two jobs had copies of one row, the rewards are those payments   *)
(* and forms gave without those forms took.                                *)
THEOREM RewardsAreKept == AccountsSpec => []RewardsKept
<1>1. AccountsInv => RewardsKept BY DEF AccountsInv, RewardInv, RewardsKept, Total
<1> QED BY <1>1, AccountsInvariant, PTL

(* A Discord account has one user unless two bind it at once. *)
THEOREM DiscordIsOnes == AccountsSpec => []DiscordOnce
<1>1. AccountsInv => DiscordOnce BY DEF AccountsInv
<1> QED BY <1>1, AccountsInvariant, PTL

LEMMA CouponStep ==
    ASSUME AccountsInv, AccountsNext, NEW c \in Coupon, coupons[c], ~coupons'[c], ~overlap'
    PROVE  \E w \in Worker : /\ task[w].kind = "coupon" /\ task[w].pc = "used"
                             /\ task[w].coupon = c /\ task[w].flag = FALSE
<1>1. ~overlap BY DEF AccountsNext
<1>2. PICK w \in Worker, t \in Task, n \in Task : Job(w, t, n)
    BY StepWorks DEF AccountsNext, AccountsInv, RewardInv, Works
<1>3. task[w] = t /\ UsesCoupon(t) /\ LocalTask(t)
    BY <1>1, <1>2 DEF AccountsInv, Job
<1>4. coupons \in [Coupon -> BOOLEAN] /\ t.used \in BOOLEAN /\ t.flag \in BOOLEAN \cup {None}
    BY DEF AccountsInv, RewardInv, Shape, AccountsTypeOK, Task
<1>5. /\ t.pc = "used"
      /\ coupons' = [coupons EXCEPT ![t.coupon] = SetsUsed(t)]
    BY <1>2 DEF Job, CouponMove
<1>6. t.coupon = c BY <1>4, <1>5
<1>7. ~SetsUsed(t) BY <1>4, <1>5, <1>6
<1>8. t.kind # "pay" /\ t.flag = FALSE
    BY <1>3, <1>4, <1>5, <1>6, <1>7 DEF SetsUsed, UsesCoupon
<1>9. t.kind = "coupon" BY <1>3, <1>5, <1>8 DEF LocalTask
<1> QED BY <1>3, <1>5, <1>6, <1>8, <1>9

(* Without overlap a used coupon becomes unused only by an edit that says  *)
(* so: not by an edit of its other columns, nor by an order.               *)
THEOREM CouponsStayUsed == AccountsSpec => CouponStaysUsed
<1>1. AccountsInv /\ [AccountsNext]_accountsVars =>
         [\A c \in Coupon : coupons[c] /\ ~coupons'[c] /\ ~overlap' =>
             \E w \in Worker : /\ task[w].kind = "coupon" /\ task[w].pc = "used"
                               /\ task[w].coupon = c /\ task[w].flag = FALSE]_accountsVars
    BY CouponStep
<1> QED BY <1>1, AccountsInvariant, PTL DEF AccountsSpec, CouponStaysUsed

LEMMA ColumnsStep ==
    ASSUME AccountsInv, AccountsNext, NEW w \in Worker, task'[w] # task[w], ~overlap',
           NEW u \in User,
           NEW c \in {"active", "password", "discord", "points", "rewards"},
           users'[u][c] # users[u][c]
    PROVE  c \in OwnColumns(task[w], u)
<1>1. ~overlap BY DEF AccountsNext
<1>2. PICK v \in Worker, t \in Task, n \in Task : Job(v, t, n)
    BY StepWorks DEF AccountsNext, AccountsInv, RewardInv, Works
<1>3. v = w /\ task[w] = t BY <1>2 DEF Job, AccountsInv, RewardInv, Shape, AccountsTypeOK
<1>4. ~SavesNothing(t, n) BY DEF SavesNothing
<1>5. PICK x \in User, q \in Row, r \in Row : SavesRow(t, n, x, q, r)
    BY <1>2, <1>4 DEF Job
<1>6. q = users[x]
    BY <1>1, <1>3, <1>5 DEF SavesRow, AccountsInv, RewardInv, Fresh
<1>7. u = x /\ users'[x] = r
    BY <1>5 DEF SavesRow, AccountsInv, RewardInv, Shape, AccountsTypeOK
<1>8. c \in Columns /\ r[c] # q[c] BY <1>6, <1>7 DEF Columns
<1> QED BY <1>3, <1>5, <1>7, <1>8 DEF SavesRow

(* Without overlapping jobs a save changes only what its job is about. *)
THEOREM ColumnsAreKept == AccountsSpec => ColumnsKept
<1>1. AccountsInv /\ [AccountsNext]_accountsVars =>
         [\A w \in Worker : task'[w] # task[w] /\ ~overlap' =>
             \A u \in User,
                c \in {"active", "password", "discord", "points", "rewards"} :
                   users'[u][c] # users[u][c] => c \in OwnColumns(task[w], u)]_accountsVars
    BY ColumnsStep
<1> QED BY <1>1, AccountsInvariant, PTL DEF AccountsSpec, ColumnsKept
=============================================================================
