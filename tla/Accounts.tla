------------------------------ MODULE Accounts ------------------------------
(***************************************************************************)
(* User accounts: the rewards of a paid order (orders/services.py), the    *)
(* invitation of a new user, log-in, binding of a Discord account, ban and *)
(* password (users/, authentication/), the update of a user by a form, the *)
(* levels (rewards/views.py) and coupons.  Each request or thread reads a  *)
(* user as a whole row and saves it as a whole row; jobs interleave        *)
(* between these reads and saves (what one function reads in a row without *)
(* a save in between is one step).                                         *)
(***************************************************************************)
EXTENDS Naturals, FiniteSets

CONSTANTS
    User,           \* rows of the user table
    Password,       \* passwords
    DiscordId,      \* Discord accounts
    Coupon,         \* rows of coupon_code
    None,           \* no such value
    Worker,         \* threads and processes
    Top,            \* the highest level (5)
    Thresholds,     \* possible contents of level_code: [2..Top -> Nat]
    Forms,          \* forms that update a user
    Reward,         \* points for the inviter of a buyer
    Bill,           \* level points for the buyer
    Welcome,        \* INVITE_LEVEL_POINTS_PER_USER
    Credit,         \* level points the Discord bot asks for
    MaxJobs         \* bound on jobs

Row == [active : BOOLEAN, password : Password, discord : DiscordId \cup {None},
        points : Nat, rewards : Nat, level : 1..Top]

(* UserUpdateSerializer: what a form sends; None is a column it leaves out. *)
Form == [active : BOOLEAN \cup {None}, points : Nat \cup {None},
         rewards : Nat \cup {None}]

ASSUME AccountsAssumption ==
    /\ Forms \subseteq Form
    /\ IsFiniteSet(Worker) /\ Password # {}
    /\ Top \in Nat \ {0} /\ Thresholds \subseteq [2..Top -> Nat]
    /\ Reward \in Nat /\ Bill \in Nat /\ Welcome \in Nat /\ Credit \in Nat
    /\ MaxJobs \in Nat
    /\ None \notin User /\ None \notin Row
    /\ None \notin Coupon /\ None \notin DiscordId /\ None \notin Password

VARIABLES
    users,          \* [User -> Row]
    records,        \* [User -> the sum of the point records of payments]
    invitedBy,      \* invite_log: [User -> inviter or None]
    coupons,        \* [Coupon -> is_used]
    levels,         \* level_code: the points each level asks for
    task,           \* [Worker -> Task]
    spawned,        \* update_user_level threads that have not read yet
    tasks,          \* jobs so far
    raised,         \* history: [User -> rewards that forms have added]
    lowered,        \* history: [User -> rewards that forms have taken]
    overlap         \* history: two jobs have had copies of one row

accountsVars == <<users, records, raised, lowered, invitedBy, coupons, levels,
                  task, spawned, tasks, overlap>>

Edit == {"login", "ban", "unban", "password", "credit", "invite", "bind", "update"}

Kind == Edit \cup {"none", "pay", "relevel", "levels", "coupon"}

PC == {"idle", "coupon", "used", "buyer", "inviter", "reward", "record", "points",
       "level", "log", "check", "save", "each", "write"}

(* The locals of a job: the row it works on and its copy, the inviter and  *)
(* its copy, a coupon and its copy, the is_used of a coupon's form, the    *)
(* input, and the copies of all users update_user_level has yet to save.   *)
Task == [kind : Kind, pc : PC, user : User \cup {None}, row : Row \cup {None},
         inviter : User \cup {None}, other : Row \cup {None},
         coupon : Coupon \cup {None}, used : BOOLEAN, flag : BOOLEAN \cup {None},
         input : Password \cup DiscordId \cup User \cup Forms \cup {None},
         batch : [User -> Row \cup {None}]]

NoBatch == [u \in User |-> None]

NoTask == [kind |-> "none", pc |-> "idle", user |-> None, row |-> None,
           inviter |-> None, other |-> None, coupon |-> None, used |-> FALSE,
           flag |-> None, input |-> None, batch |-> NoBatch]

SetTask(w, t) == task' = [task EXCEPT ![w] = t]

(* The thread or request starts with task t. *)
StartTask(w, t) ==
    /\ task[w].pc = "idle"
    /\ tasks < MaxJobs
    /\ tasks' = tasks + 1
    /\ SetTask(w, t)

(* User.get_level: the highest level the points reach. *)
LevelOf(points) ==
    LET reached == {1} \cup {l \in 2..Top : points >= levels[l]}
    IN  CHOOSE l \in reached : \A k \in reached : k <= l

(* Mutant: the points that reached a level are spent on it. *)
SavedSpending(row) ==
    LET level == LevelOf(row.points)
    IN  [row EXCEPT !.level = level, !.points = IF level > row.level THEN 0 ELSE @]

(* The row User.save writes: get_level, then every column of the copy. *)
Saved(row) == [row EXCEPT !.level = LevelOf(row.points)]

AccountsInit ==
    /\ users \in [User -> [active : {TRUE}, password : {CHOOSE p \in Password : TRUE},
                           discord : {None}, points : {0}, rewards : {0}, level : {1}]]
    /\ records = [u \in User |-> 0]
    /\ raised = records /\ lowered = records
    /\ invitedBy = [u \in User |-> None]
    /\ coupons = [c \in Coupon |-> FALSE]
    /\ levels \in Thresholds
    /\ \A l \in 2..Top : levels[l] > 0
    /\ task = [w \in Worker |-> NoTask]
    /\ spawned = 0 /\ tasks = 0 /\ overlap = FALSE

-----------------------------------------------------------------------------
(* webhook_handle after a successful delivery or renewal.                  *)

StartPay(w, u, c) ==
    /\ StartTask(w, [NoTask EXCEPT !.kind = "pay", !.user = u, !.coupon = c,
                                   !.pc = IF c = None THEN "buyer" ELSE "coupon"])
    /\ UNCHANGED <<users, records, raised, lowered, invitedBy, coupons, levels, spawned>>

(* The row of the coupon is read. *)
ReadCoupon(w) ==
    /\ task[w].pc = "coupon"
    /\ SetTask(w, [task[w] EXCEPT !.pc = "used", !.used = coupons[task[w].coupon]])
    /\ UNCHANGED <<users, records, raised, lowered, invitedBy, coupons, levels, spawned, tasks>>

(* Mutant: an edit that does not send the flag saves its default. *)
SaveCouponUnsent(w) ==
    /\ task[w].pc = "used"
    /\ coupons' = [coupons EXCEPT ![task[w].coupon] =
                        task[w].kind = "pay" \/ task[w].flag = TRUE]
    /\ SetTask(w, IF task[w].kind = "pay" THEN [task[w] EXCEPT !.pc = "buyer"]
                                          ELSE NoTask)
    /\ UNCHANGED <<users, records, raised, lowered, invitedBy, levels, spawned, tasks>>

(* used_code of the webhook, or the save of an edit: its form has is_used, *)
(* or the copy keeps its own.                                              *)
SaveCoupon(w) ==
    /\ task[w].pc = "used"
    /\ coupons' = [coupons EXCEPT ![task[w].coupon] =
                        \/ task[w].kind = "pay"
                        \/ IF task[w].flag = None THEN task[w].used ELSE task[w].flag]
    /\ SetTask(w, IF task[w].kind = "pay" THEN [task[w] EXCEPT !.pc = "buyer"]
                                          ELSE NoTask)
    /\ UNCHANGED <<users, records, raised, lowered, invitedBy, levels, spawned, tasks>>

(* Mutant: a buyer nobody invited has an inviter all the same. *)
ReadInvitedBuyer(w) ==
    /\ task[w].pc = "buyer"
    /\ SetTask(w, [task[w] EXCEPT !.row = users[task[w].user],
                                  !.inviter = invitedBy[task[w].user],
                                  !.pc = "inviter"])
    /\ UNCHANGED <<users, records, raised, lowered, invitedBy, coupons, levels, spawned, tasks>>

(* order_user and its invitation are read. *)
ReadBuyer(w) ==
    /\ task[w].pc = "buyer"
    /\ SetTask(w, [task[w] EXCEPT !.row = users[task[w].user],
                                  !.inviter = invitedBy[task[w].user],
                                  !.pc = IF invitedBy[task[w].user] = None
                                         THEN "points" ELSE "inviter"])
    /\ UNCHANGED <<users, records, raised, lowered, invitedBy, coupons, levels, spawned, tasks>>

ReadInviter(w) ==
    /\ task[w].pc = "inviter"
    /\ SetTask(w, [task[w] EXCEPT !.other = users[task[w].inviter], !.pc = "reward"])
    /\ UNCHANGED <<users, records, raised, lowered, invitedBy, coupons, levels, spawned, tasks>>

(* Mutant: the reward is added again on top of the buyer's own save. *)
SaveRewardTwice(w) ==
    /\ task[w].pc = "reward"
    /\ LET row == Saved([task[w].other EXCEPT !.rewards = @ + 2 * Reward])
       IN  users' = [users EXCEPT ![task[w].inviter] = row]
    /\ SetTask(w, [task[w] EXCEPT !.pc = "record", !.other = None])
    /\ UNCHANGED <<records, raised, lowered, invitedBy, coupons, levels, spawned, tasks>>

SaveReward(w) ==
    /\ task[w].pc = "reward"
    /\ LET row == Saved([task[w].other EXCEPT !.rewards = @ + Reward])
       IN  users' = [users EXCEPT ![task[w].inviter] = row]
    /\ SetTask(w, [task[w] EXCEPT !.pc = "record", !.other = None])
    /\ UNCHANGED <<records, raised, lowered, invitedBy, coupons, levels, spawned, tasks>>

(* PointRecord.objects.create *)
RecordReward(w) ==
    /\ task[w].pc = "record"
    /\ records' = [records EXCEPT ![task[w].inviter] = @ + Reward]
    /\ SetTask(w, [task[w] EXCEPT !.pc = "points", !.inviter = None])
    /\ UNCHANGED <<users, raised, lowered, invitedBy, coupons, levels, spawned, tasks>>

(* order_user.save() with the points of the order. *)
SavePoints(w) ==
    /\ task[w].pc = "points"
    /\ LET row == Saved([task[w].row EXCEPT !.points = @ + Bill])
       IN  /\ users' = [users EXCEPT ![task[w].user] = row]
           /\ SetTask(w, [task[w] EXCEPT !.row = row, !.pc = "level"])
    /\ UNCHANGED <<records, raised, lowered, invitedBy, coupons, levels, spawned, tasks>>

(* update_level after a save.  A new level makes it import a module that   *)
(* does not exist, so the job ends there; else it saves once more.         *)
UpdateLevel(w) ==
    /\ task[w].pc = "level"
    /\ users' = IF LevelOf(task[w].row.points) = task[w].row.level
                THEN [users EXCEPT ![task[w].user] = Saved(task[w].row)]
                ELSE users
    /\ SetTask(w, NoTask)
    /\ UNCHANGED <<records, raised, lowered, invitedBy, coupons, levels, spawned, tasks>>

-----------------------------------------------------------------------------
(* Requests that read one user, change a column and save.                  *)

(* Mutant: a user may be invited by itself. *)
MayEditSelf(u, kind, input) ==
    CASE kind \in {"ban", "unban"} -> input = None
      [] kind = "login"    -> input = None /\ users[u].active
      [] kind = "credit"   -> input = None /\ users[u].discord # None
      [] kind = "password" -> input \in Password
      [] kind = "update"   -> input \in Forms
      [] kind = "bind"     -> input \in DiscordId /\ users[u].active
      [] kind = "invite"   -> input \in User /\ invitedBy[input] = None

(* Who may ask for it: only an active user logs in (authenticate) or binds *)
(* (a password is also reset by e-mail, or set by an administrator); the   *)
(* bot knows users by their Discord account; a new user was not invited    *)
(* before.                                                                 *)
MayEdit(u, kind, input) ==
    CASE kind \in {"ban", "unban"} -> input = None
      [] kind = "login"    -> input = None /\ users[u].active
      [] kind = "credit"   -> input = None /\ users[u].discord # None
      [] kind = "password" -> input \in Password
      [] kind = "update"   -> input \in Forms
      [] kind = "bind"     -> input \in DiscordId /\ users[u].active
      [] kind = "invite"   -> input \in User \ {u} /\ invitedBy[input] = None

StartEdit(w, u, kind, input) ==
    /\ MayEdit(u, kind, input)
    /\ StartTask(w, [NoTask EXCEPT !.kind = kind, !.user = u, !.row = users[u],
                                   !.input = input,
                                   !.pc = CASE kind = "invite" -> "log"
                                            [] kind = "bind" -> "check"
                                            [] OTHER -> "save"])
    /\ UNCHANGED <<users, records, raised, lowered, invitedBy, coupons, levels, spawned>>

(* insert_invite_log: InviteLog.objects.create; webhook_handle takes the   *)
(* first entry of a user.                                                  *)
LogInvite(w) ==
    /\ task[w].pc = "log"
    /\ invitedBy' = [invitedBy EXCEPT ![task[w].input] =
                        IF @ = None THEN task[w].user ELSE @]
    /\ SetTask(w, [task[w] EXCEPT !.pc = "save"])
    /\ UNCHANGED <<users, records, raised, lowered, coupons, levels, spawned, tasks>>

(* Mutant: nobody looks for another user of the Discord account. *)
CheckNothing(w) ==
    /\ task[w].pc = "check"
    /\ SetTask(w, [task[w] EXCEPT !.pc = "save"])
    /\ UNCHANGED <<users, records, raised, lowered, invitedBy, coupons, levels, spawned, tasks>>

(* DiscordBindRedirectApi: the account must not be bound to anybody. *)
CheckDiscord(w) ==
    /\ task[w].pc = "check"
    /\ SetTask(w, IF \E u \in User : users[u].discord = task[w].input
                  THEN NoTask ELSE [task[w] EXCEPT !.pc = "save"])
    /\ UNCHANGED <<users, records, raised, lowered, invitedBy, coupons, levels, spawned, tasks>>

(* A column of a form that was sent replaces that of the copy. *)
Sent(form, column, old) == IF form[column] = None THEN old ELSE form[column]

Edited(t) ==
    CASE t.kind = "login"    -> t.row
      [] t.kind = "ban"      -> [t.row EXCEPT !.active = FALSE]
      [] t.kind = "unban"    -> [t.row EXCEPT !.active = TRUE]
      [] t.kind = "password" -> [t.row EXCEPT !.password = t.input]
      [] t.kind = "bind"     -> [t.row EXCEPT !.discord = t.input]
      [] t.kind = "credit"   -> [t.row EXCEPT !.points = @ + Credit]
      [] t.kind = "invite"   -> [t.row EXCEPT !.points = @ + Welcome]
      [] t.kind = "update"   -> [t.row EXCEPT !.active = Sent(t.input, "active", @),
                                              !.points = Sent(t.input, "points", @),
                                              !.rewards = Sent(t.input, "rewards", @)]

(* By how much a is more than b. *)
Excess(a, b) == IF a > b THEN a - b ELSE 0

(* The history of forms that set the rewards of u from old to new. *)
NoteRewards(u, old, new) ==
    /\ raised' = [raised EXCEPT ![u] = @ + Excess(new, old)]
    /\ lowered' = [lowered EXCEPT ![u] = @ + Excess(old, new)]

(* Only BotWebHookAPIView calls update_level after the save; an update     *)
(* sets rewards and points without a point record.                         *)
SaveEdit(w) ==
    /\ task[w].pc = "save"
    /\ LET row == Saved(Edited(task[w]))
       IN  /\ users' = [users EXCEPT ![task[w].user] = row]
           /\ SetTask(w, IF task[w].kind = "credit"
                         THEN [task[w] EXCEPT !.row = row, !.pc = "level"]
                         ELSE NoTask)
           /\ IF task[w].kind = "update"
              THEN NoteRewards(task[w].user, task[w].row.rewards, row.rewards)
              ELSE UNCHANGED <<raised, lowered>>
    /\ UNCHANGED <<records, invitedBy, coupons, levels, spawned, tasks>>

-----------------------------------------------------------------------------
(* The configuration of levels and coupons.                                *)

(* LevelCodeViewSet.update starts the thread first, then saves. *)
StartLevels(w) ==
    /\ StartTask(w, [NoTask EXCEPT !.kind = "levels", !.pc = "write"])
    /\ spawned' = spawned + 1
    /\ UNCHANGED <<users, records, raised, lowered, invitedBy, coupons, levels>>

WriteLevels(w, new) ==
    /\ task[w].pc = "write"
    /\ levels' = new
    /\ SetTask(w, NoTask)
    /\ UNCHANGED <<users, records, raised, lowered, invitedBy, coupons, spawned, tasks>>

(* The thread update_user_level of rewards/views.py reads all the users. *)
StartRelevel(w) ==
    /\ spawned > 0
    /\ spawned' = spawned - 1
    /\ task[w].pc = "idle"
    /\ SetTask(w, [NoTask EXCEPT !.kind = "relevel", !.pc = "each", !.batch = users])
    /\ UNCHANGED <<users, records, raised, lowered, invitedBy, coupons, levels, tasks>>

(* update_level of one user; a new level ends the thread with an error. *)
RelevelUser(w, u) ==
    /\ task[w].pc = "each"
    /\ task[w].batch[u] # None
    /\ LET row == task[w].batch[u]
           left == [task[w].batch EXCEPT ![u] = None]
       IN  IF LevelOf(row.points) = row.level
           THEN /\ users' = [users EXCEPT ![u] = Saved(row)]
                /\ SetTask(w, IF left = NoBatch THEN NoTask
                              ELSE [task[w] EXCEPT !.batch = left])
           ELSE SetTask(w, NoTask) /\ UNCHANGED users
    /\ UNCHANGED <<records, raised, lowered, invitedBy, coupons, levels, spawned, tasks>>

(* CouponCodeViewSet.update: the row is read, then saved with the form,    *)
(* which sends is_used or not.                                             *)
StartCouponEdit(w, c, flag) ==
    /\ StartTask(w, [NoTask EXCEPT !.kind = "coupon", !.coupon = c, !.flag = flag,
                                   !.pc = "coupon"])
    /\ UNCHANGED <<users, records, raised, lowered, invitedBy, coupons, levels, spawned>>

-----------------------------------------------------------------------------
(* The rows of users a job has copies of. *)
CopiesOf(t) ==
    {u \in User : \/ t.row # None /\ t.user = u
                  \/ t.other # None /\ t.inviter = u
                  \/ t.batch[u] # None}

(* No two jobs have copies of one row, or look for one Discord account. *)
JobsApart ==
    \A v, w \in Worker : v # w =>
        /\ CopiesOf(task[v]) \cap CopiesOf(task[w]) = {}
        /\ ~(task[v].pc = "used" /\ task[w].pc = "used" /\ task[v].coupon = task[w].coupon)
        /\ ~(task[v].kind = "bind" /\ task[w].kind = "bind")

AccountsStep ==
    \E w \in Worker :
        \/ \E u \in User, c \in Coupon \cup {None} : StartPay(w, u, c)
        \/ ReadCoupon(w) \/ SaveCoupon(w)
        \/ ReadBuyer(w) \/ ReadInviter(w) \/ SaveReward(w)
        \/ RecordReward(w) \/ SavePoints(w) \/ UpdateLevel(w)
        \/ \E u \in User, kind \in Edit,
              input \in Password \cup DiscordId \cup User \cup Forms \cup {None} :
                 StartEdit(w, u, kind, input)
        \/ LogInvite(w) \/ CheckDiscord(w) \/ SaveEdit(w)
        \/ StartLevels(w) \/ StartRelevel(w)
        \/ \E new \in Thresholds : WriteLevels(w, new)
        \/ \E u \in User : RelevelUser(w, u)
        \/ \E c \in Coupon, flag \in BOOLEAN \cup {None} : StartCouponEdit(w, c, flag)

AccountsNext == AccountsStep /\ overlap' = (overlap \/ ~JobsApart')

AccountsSpec == AccountsInit /\ [][AccountsNext]_accountsVars

-----------------------------------------------------------------------------
(* Properties.                                                             *)

(* What a job's program counter says of its other fields. *)
TaskOK(t) ==
    /\ t \in Task
    /\ t.pc \in {"coupon", "used"} => t.coupon # None
    /\ t.pc \in {"buyer", "inviter", "reward", "record", "points", "level",
                 "log", "check", "save"} => t.user # None
    /\ t.pc \in {"inviter", "reward", "record"} => t.inviter # None
    /\ t.pc \in {"inviter", "reward", "record", "points", "level",
                 "log", "check", "save"} => t.row # None
    /\ t.pc = "reward" => t.other # None
    /\ t.kind = "pay" => t.user # None
    /\ t.pc \in {"log", "check", "save"} => t.kind \in Edit
    /\ t.kind = "password" => t.input \in Password
    /\ t.kind = "bind" => t.input \in DiscordId
    /\ t.kind = "invite" => t.input \in User
    /\ t.kind = "update" => t.input \in Forms

(* The types of the tables and of the jobs' copies. *)
AccountsTypeOK ==
    /\ users \in [User -> Row]
    /\ records \in [User -> Nat]
    /\ raised \in [User -> Nat] /\ lowered \in [User -> Nat]
    /\ invitedBy \in [User -> User \cup {None}]
    /\ coupons \in [Coupon -> BOOLEAN]
    /\ levels \in [2..Top -> Nat]
    /\ \A w \in Worker : TaskOK(task[w])
    /\ task \in [Worker -> Task]
    /\ spawned \in Nat /\ tasks \in Nat
    /\ overlap \in BOOLEAN

(* Rewards that were saved and have no point record yet. *)
Unrecorded(u) == {w \in Worker : task[w].pc = "record" /\ task[w].inviter = u}

Backed(u) == records[u] + Reward * Cardinality(Unrecorded(u))

(* PointRecord is the record of the changes of points (its docstring, "the *)
(* current user's changes of points"): whatever jobs overlap, nobody has   *)
(* reward points that neither a record nor a form of UserApi.update        *)
(* explains - stale saves only lose points.                                *)
RewardsBacked == \A u \in User : users[u].rewards <= Backed(u) + raised[u]

(* As long as no two jobs have had copies of one row, none is lost either: *)
(* what a user has and what forms took is what payments and forms gave.    *)
RewardsKept ==
    ~overlap => \A u \in User :
        users[u].rewards + lowered[u] = Backed(u) + raised[u]

(* A Discord account belongs to one user (validate_discord_id: "Discord    *)
(* account is already exists"), unless two users bind it at once.          *)
DiscordOnce ==
    ~overlap => \A u, v \in User :
        users[u].discord # None /\ users[u].discord = users[v].discord => u = v

(* The columns of u that job t is about (of an update, those its form      *)
(* sends); the level goes with every save.                                 *)
OwnColumns(t, u) ==
    IF u = t.user
    THEN CASE t.kind \in {"ban", "unban"}               -> {"active"}
           [] t.kind = "password"                       -> {"password"}
           [] t.kind = "bind"                           -> {"discord"}
           [] t.kind \in {"credit", "invite", "pay"}    -> {"points"}
           [] t.kind = "update" ->
                 {c \in {"active", "points", "rewards"} : t.input[c] # None}
           [] OTHER                                     -> {}
    ELSE IF t.kind = "pay" /\ u = t.inviter THEN {"rewards"} ELSE {}

(* Without overlapping jobs a save changes only what its job is about: a   *)
(* log-in does not undo a ban, an order's points do not restore an old     *)
(* password, a change of levels does not take back anybody's points.       *)
ColumnsKept ==
    [][\A w \in Worker : task'[w] # task[w] /\ ~overlap' =>
          \A u \in User,
             c \in {"active", "password", "discord", "points", "rewards"} :
                 users'[u][c] # users[u][c] => c \in OwnColumns(task[w], u)]_accountsVars

(* Without overlap a used coupon becomes unused only by an edit whose form *)
(* says so: not by an edit of its other columns, nor by an order.          *)
CouponStaysUsed ==
    [][\A c \in Coupon : coupons[c] /\ ~coupons'[c] /\ ~overlap' =>
          \E w \in Worker : /\ task[w].kind = "coupon" /\ task[w].pc = "used"
                            /\ task[w].coupon = c /\ task[w].flag = FALSE]_accountsVars
=============================================================================
