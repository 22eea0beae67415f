----------------------------- MODULE ProxyServer -----------------------------
(***************************************************************************)
(* The accounts and access lists on the proxy servers: what a delivery     *)
(* (create_proxy_by_order_obj), the reset of an order (reset_proxy_fn) and *)
(* the deletion of proxies (the post_delete signal and delete_proxy_task)  *)
(* do there through KaxyClient, request by request.  Agents - Celery       *)
(* workers and webhook threads - interleave between any two requests; a    *)
(* request may fail before or after the server has executed it.  The       *)
(* servers themselves are external.                                        *)
(***************************************************************************)
EXTENDS Naturals, Sequences

CONSTANTS
    Host,           \* proxy servers
    Name,           \* user names of proxies
    Order,          \* orders
    Agent,          \* Celery workers and webhook threads
    Nobody,         \* no such value
    Deliveries,     \* sequences of hosts: the servers of the subnets of an order
    FirstRows,      \* possible first contents of the table of proxies
    Tries,          \* attempts to create a user (5)
    MaxStarted,     \* bound on deliveries, resets and deletions
    MaxFailures     \* bound on failed requests

(* A row of the table proxy: one for each subnet of a delivery. *)
ProxyRow == [order : Order, host : Host, name : Name, subnet : Nat]

ASSUME ProxyServerAssumption ==
    /\ Deliveries \subseteq Seq(Host)
    /\ \A table \in FirstRows : table \subseteq ProxyRow
    /\ Tries \in Nat \ {0} /\ MaxStarted \in Nat /\ MaxFailures \in Nat
    /\ Nobody \notin Order \cup Name \cup (Host \X Name)

VARIABLES
    accounts,       \* [Host -> the names it serves]
    access,         \* [Host -> the names its access list has lines for]
    proxies,        \* the table proxy
    messages,       \* delete_proxy_task messages: pairs of host and name
    marks,          \* cache keys delete_proxy_task:{server_ip}_{username}
    errand,         \* [Agent -> what it is doing]
    started,        \* deliveries, resets and deletions so far
    failures,       \* failed requests so far
    names,          \* history: the names given so far
    renamed,        \* history: those of them a server's refusal led to
    touched,        \* history: pairs that were deleted or reset
    raced,          \* history: an access list was written over a newer one
    unannounced     \* history: pairs deleted while marked

servers == <<accounts, access>>
tables == <<proxies, messages, marks>>
history == <<names, renamed, touched, raced, unannounced>>

proxyVars == <<servers, tables, errand, started, failures, history>>

PairOf(r) == <<r.host, r.name>>

(* The locals of an agent: the order; its proxy_username and the hosts of  *)
(* the subnets to come; the clients it made, and those of them whose last  *)
(* request failed (status is False); the user name create_user_acl_by_     *)
(* prefix has come to and its attempts; server_acl_list as its keys and    *)
(* those still 0, and those of them the inner loop has yet to try; whether *)
(* the server answered with proxies; the access list it read; the rows it  *)
(* created (proxy_id_list); the pairs a reset has yet to delete, and the   *)
(* rows it found; the pair of a delete task, or the last of a reset.       *)
Idle == [kind |-> "none", pc |-> "idle", order |-> Nobody, name |-> Nobody,
         hosts |-> <<>>, clients |-> {}, down |-> {}, given |-> Nobody,
         tries |-> 0, listed |-> {}, unset |-> {},
         turn |-> {}, answered |-> FALSE, text |-> {}, made |-> {},
         targets |-> {}, old |-> {}, pair |-> Nobody]

SetErrand(w, e) == errand' = [errand EXCEPT ![w] = e]

(* Whether the caller sees a request succeed, the server executed it, and  *)
(* the client's status after it: an exception or a status other than 200   *)
(* makes it False, an error in the body and the cut-off of a host that     *)
(* failed too often leave it True.                                         *)
Answers == {[ok |-> TRUE, done |-> TRUE, up |-> TRUE]}
           \cup [ok : {FALSE}, done : BOOLEAN, up : BOOLEAN]

Request(a) ==
    /\ a.ok \/ failures < MaxFailures
    /\ failures' = IF a.ok THEN failures ELSE failures + 1

ProxyInit ==
    /\ proxies \in FirstRows
    /\ accounts = [h \in Host |-> {r.name : r \in {p \in proxies : p.host = h}}]
    /\ access = accounts
    /\ messages = {} /\ marks = {}
    /\ errand = [w \in Agent |-> Idle]
    /\ started = 0 /\ failures = 0
    /\ names = {r.name : r \in proxies} /\ renamed = {}
    /\ touched = {} /\ raced = FALSE /\ unannounced = {}

-----------------------------------------------------------------------------
(* create_proxy_by_order_obj.                                              *)

(* The clients whose last request failed, after one to the server in turn. *)
DownAfter(e, up) == IF up THEN e.down \ {Head(e.hosts)} ELSE e.down \cup {Head(e.hosts)}

(* create_proxy returns False: a reset ends without deleting a row. *)
GiveUp == Idle

(* The next subnet, with a client for its server, which must not be down,  *)
(* or the return of create_proxy.                                          *)
NextSubnet(e) ==
    IF e.hosts # <<>>
    THEN IF Head(e.hosts) \in e.clients \cap e.down THEN GiveUp
         ELSE [e EXCEPT !.pc = IF Head(e.hosts) \in e.clients THEN "create" ELSE "client",
                        !.given = e.name, !.tries = 0, !.answered = FALSE, !.text = {}]
    ELSE IF e.kind = "reset" THEN [e EXCEPT !.pc = "drop", !.name = Nobody]
    ELSE Idle

(* The lock create_proxy_by_id_{} of the order, the name and the subnets.  *)
(* The name begins with the last four digits of the time: that it is a new *)
(* one is assumed, the code does not look.                                 *)
Begin(w, e, name, hosts) ==
    /\ \A v \in Agent : errand[v].order = e.order => errand[v].name = Nobody
    /\ SetErrand(w, NextSubnet([e EXCEPT !.name = name, !.hosts = hosts]))
    /\ name \notin names
    /\ names' = names \cup {name}
    /\ UNCHANGED <<servers, tables, failures, renamed, touched, raced, unannounced>>

StartDelivery(w, o, name, hosts) ==
    /\ errand[w].pc = "idle"
    /\ started < MaxStarted
    /\ started' = started + 1
    /\ Begin(w, [Idle EXCEPT !.kind = "deliver", !.order = o], name, hosts)

(* KaxyClient(server_ip), once a server: it asks for the server's status. *)
MakeClient(w, a) ==
    LET e == errand[w]
        h == Head(e.hosts)
    IN  /\ e.pc = "client"
        /\ SetErrand(w, IF a.ok THEN [e EXCEPT !.clients = @ \cup {h}, !.pc = "create"]
                                ELSE GiveUp)
        /\ Request(a)
        /\ UNCHANGED <<servers, tables, started, history>>

(* After create_user_acl_by_prefix, with proxies or none: the server joins *)
(* server_acl_list.                                                        *)
Created(e, answered, up) ==
    LET h     == Head(e.hosts)
        unset == e.unset \cup ({h} \ e.listed)
    IN  [e EXCEPT !.answered = answered, !.down = DownAfter(e, up),
                  !.listed = @ \cup {h}, !.unset = unset, !.turn = unset,
                  !.pc = IF unset = {} THEN "rows" ELSE "read"]

(* create_user_by_prefix: an error that is no refusal of the name or the   *)
(* prefix yields no proxies, and no exception.                             *)
CreateUser(w, a) ==
    LET e == errand[w]
        h == Head(e.hosts)
    IN  /\ e.pc = "create"
        /\ accounts' = IF a.done THEN [accounts EXCEPT ![h] = @ \cup {e.given}] ELSE accounts
        /\ SetErrand(w, Created(e, a.ok, a.up))
        /\ Request(a)
        /\ UNCHANGED <<access, tables, started, history>>

(* "Bad format for user.": another attempt, with a random user name (a new *)
(* one: that it is, is assumed).  proxy_username stays what it was.        *)
RenameUser(w, new) ==
    LET e == errand[w]
    IN  /\ e.pc = "create"
        /\ e.tries + 1 < Tries
        /\ new \notin names
        /\ names' = names \cup {new}
        /\ renamed' = renamed \cup {new}
        /\ SetErrand(w, [e EXCEPT !.given = new, !.tries = @ + 1])
        /\ UNCHANGED <<servers, tables, started, failures, touched, raced, unannounced>>

(* The last attempt is refused too: no proxies. *)
RefuseUser(w, up) ==
    LET e == errand[w]
    IN  /\ e.pc = "create"
        /\ e.tries + 1 = Tries
        /\ SetErrand(w, Created(e, FALSE, up))
        /\ UNCHANGED <<servers, tables, started, failures, history>>

(* "Invalid prefix." raises ValueError. *)
RefusePrefix(w) ==
    /\ errand[w].pc = "create"
    /\ SetErrand(w, GiveUp)
    /\ UNCHANGED <<servers, tables, started, failures, history>>

(* list_user_acl of add_user_acl raises ValueError if it fails. *)
ReadAccess(w, a) ==
    LET e == errand[w]
    IN  /\ e.pc = "read"
        /\ SetErrand(w, IF a.ok THEN [e EXCEPT !.text = access[Head(e.hosts)],
                                               !.down = DownAfter(e, a.up), !.pc = "write"]
                                ELSE GiveUp)
        /\ Request(a)
        /\ UNCHANGED <<servers, tables, started, history>>

(* Mutant: the lines of the order replace those of the other users. *)
WriteOwnAccess(w, a, g) ==
    LET e     == errand[w]
        h     == Head(e.hosts)
        unset == IF a.ok THEN e.unset \ {g} ELSE e.unset
    IN  /\ e.pc = "write"
        /\ g \in e.turn
        /\ access' = IF a.done THEN [access EXCEPT ![h] = {e.name}] ELSE access
        /\ SetErrand(w, [e EXCEPT !.unset = unset, !.turn = @ \ {g},
                                  !.down = DownAfter(e, a.up),
                                  !.pc = IF e.turn = {g} THEN "rows" ELSE "read"])
        /\ Request(a)
        /\ UNCHANGED <<accounts, tables, started, history>>

(* write-user-acl with the lines of all users and those of the order.  The *)
(* flag of g is set whichever server it was that took the lines.           *)
WriteAccess(w, a, g) ==
    LET e     == errand[w]
        h     == Head(e.hosts)
        unset == IF a.ok THEN e.unset \ {g} ELSE e.unset
    IN  /\ e.pc = "write"
        /\ g \in e.turn
        /\ access' = IF a.done THEN [access EXCEPT ![h] = e.text \cup {e.name}] ELSE access
        /\ raced' = (raced \/ (a.done /\ e.text # access[h]))
        /\ SetErrand(w, [e EXCEPT !.unset = unset, !.turn = @ \ {g},
                                  !.down = DownAfter(e, a.up),
                                  !.pc = IF e.turn = {g} THEN "rows" ELSE "read"])
        /\ Request(a)
        /\ UNCHANGED <<accounts, tables, started, names, renamed, touched, unannounced>>

(* Mutant: the rows are created whatever the server answered. *)
CreateAnyRows(w) ==
    LET e   == errand[w]
        row == [order |-> e.order, host |-> Head(e.hosts), name |-> e.given,
                subnet |-> Len(e.hosts)]
    IN  /\ e.pc = "rows"
        /\ proxies' = proxies \cup {row}
        /\ SetErrand(w, NextSubnet([e EXCEPT !.hosts = Tail(@), !.made = @ \cup {row}]))
        /\ UNCHANGED <<servers, messages, marks, started, failures, history>>

(* Proxy.objects.create for the proxies the server answered with. *)
CreateRows(w) ==
    LET e   == errand[w]
        row == [order |-> e.order, host |-> Head(e.hosts), name |-> e.given,
                subnet |-> Len(e.hosts)]
        new == IF e.answered THEN {row} ELSE {}
    IN  /\ e.pc = "rows"
        /\ proxies' = proxies \cup new
        /\ SetErrand(w, IF Len(e.hosts) = 1 /\ e.made \cup new = {} THEN GiveUp
                        ELSE NextSubnet([e EXCEPT !.hosts = Tail(@), !.made = @ \cup new]))
        /\ UNCHANGED <<servers, messages, marks, started, failures, history>>

-----------------------------------------------------------------------------
(* Deletion of proxies.                                                    *)

(* The post_delete signal of each of the rows. *)
Delete(deleted) ==
    LET pairs == {PairOf(r) : r \in deleted}
    IN  /\ proxies' = proxies \ deleted
        /\ messages' = messages \cup (pairs \ marks)
        /\ marks' = marks \cup pairs
        /\ touched' = touched \cup pairs
        /\ unannounced' = unannounced \cup (pairs \cap marks)

(* An administrator or a clean-up task deletes a proxy. *)
DeleteProxy(r) ==
    /\ started < MaxStarted
    /\ started' = started + 1
    /\ Delete({r})
    /\ UNCHANGED <<servers, errand, failures, names, renamed, raced>>

(* The key of the signal expires after three minutes. *)
MarkExpires(p) ==
    /\ marks' = marks \ {p}
    /\ UNCHANGED <<servers, proxies, messages, errand, started, failures, history>>

StartDeleteTask(w, p) ==
    /\ errand[w].pc = "idle"
    /\ messages' = messages \ {p}
    /\ SetErrand(w, [Idle EXCEPT !.kind = "delete", !.pc = "user", !.pair = p])
    /\ UNCHANGED <<servers, proxies, marks, started, failures, history>>

(* Mutant: only the lines of the access list are deleted. *)
KeepUser(w, a) ==
    LET e == errand[w]
    IN  /\ e.pc = "user"
        /\ SetErrand(w, IF e.kind = "reset" THEN [e EXCEPT !.pc = "each"]
                                            ELSE [e EXCEPT !.pc = "list"])
        /\ Request(a)
        /\ UNCHANGED <<servers, tables, started, history>>

(* del_user: whatever the answer, the caller goes on. *)
DelUser(w, a) ==
    LET e == errand[w]
    IN  /\ e.pc = "user"
        /\ accounts' = IF a.done THEN [accounts EXCEPT ![e.pair[1]] = @ \ {e.pair[2]}]
                                 ELSE accounts
        /\ SetErrand(w, IF e.kind = "reset" THEN [e EXCEPT !.pc = "each"]
                                            ELSE [e EXCEPT !.pc = "list"])
        /\ Request(a)
        /\ UNCHANGED <<access, tables, started, history>>

(* del_acl: the list is written if the name has lines in it. *)
ReadList(w, a) ==
    LET e == errand[w]
    IN  /\ e.pc = "list"
        /\ SetErrand(w, IF a.ok /\ e.pair[2] \in access[e.pair[1]]
                        THEN [e EXCEPT !.text = access[e.pair[1]], !.pc = "unlist"]
                        ELSE Idle)
        /\ Request(a)
        /\ UNCHANGED <<servers, tables, started, history>>

WriteList(w, a) ==
    LET e == errand[w]
        h == e.pair[1]
    IN  /\ e.pc = "unlist"
        /\ access' = IF a.done THEN [access EXCEPT ![h] = e.text \ {e.pair[2]}] ELSE access
        /\ raced' = (raced \/ (a.done /\ e.text # access[h]))
        /\ SetErrand(w, Idle)
        /\ Request(a)
        /\ UNCHANGED <<accounts, tables, started, names, renamed, touched, unannounced>>

-----------------------------------------------------------------------------
(* reset_proxy_fn.                                                         *)

(* The lock reset_proxy_{} is held for five minutes at most, so that a     *)
(* second reset of the order may run beside a slow one.                    *)
StartReset(w, o) ==
    LET mine == {r \in proxies : r.order = o}
    IN  /\ errand[w].pc = "idle"
        /\ started < MaxStarted
        /\ started' = started + 1
        /\ SetErrand(w, [Idle EXCEPT !.kind = "reset", !.pc = "each", !.order = o,
                             !.old = mine, !.targets = {PairOf(r) : r \in mine}])
        /\ UNCHANGED <<servers, tables, failures, history>>

(* The loop over the servers and user names of the order. *)
NextTarget(w, p) ==
    LET e == errand[w]
    IN  /\ e.pc = "each"
        /\ p \in e.targets
        /\ SetErrand(w, [e EXCEPT !.targets = @ \ {p}, !.pair = p, !.pc = "user"])
        /\ touched' = touched \cup {p}
        /\ UNCHANGED <<servers, tables, started, failures, names, renamed, raced, unannounced>>

(* create_proxy; without enough subnets it returns False. *)
CreateAgain(w, name, hosts) ==
    LET e == errand[w]
    IN  /\ e.pc = "each"
        /\ e.targets = {}
        /\ Begin(w, e, name, hosts)
        /\ UNCHANGED started

ResetFails(w) ==
    /\ errand[w].pc = "each"
    /\ errand[w].targets = {}
    /\ SetErrand(w, GiveUp)
    /\ UNCHANGED <<servers, tables, started, failures, history>>

(* The rows of the username of the loop, which is the last one it saw. *)
Dropped(e) ==
    {r \in proxies : e.pair # Nobody /\ r.name = e.pair[2]} \ e.made

(* Mutant: only the rows on the last server are deleted. *)
DropOldOnServer(w) ==
    /\ errand[w].pc = "drop"
    /\ Delete({r \in Dropped(errand[w]) : PairOf(r) = errand[w].pair})
    /\ SetErrand(w, Idle)
    /\ UNCHANGED <<servers, started, failures, names, renamed, raced>>

DropOld(w) ==
    /\ errand[w].pc = "drop"
    /\ Delete(Dropped(errand[w]))
    /\ SetErrand(w, Idle)
    /\ UNCHANGED <<servers, started, failures, names, renamed, raced>>

-----------------------------------------------------------------------------

ProxyNext ==
    \/ \E w \in Agent, o \in Order, n \in Name, hosts \in Deliveries :
           StartDelivery(w, o, n, hosts)
    \/ \E w \in Agent, a \in Answers :
           \/ MakeClient(w, a) \/ CreateUser(w, a) \/ ReadAccess(w, a)
           \/ \E g \in Host : WriteAccess(w, a, g)
           \/ DelUser(w, a) \/ ReadList(w, a) \/ WriteList(w, a)
    \/ \E w \in Agent, n \in Name : RenameUser(w, n)
    \/ \E w \in Agent, up \in BOOLEAN : RefuseUser(w, up)
    \/ \E w \in Agent :
           RefusePrefix(w) \/ CreateRows(w) \/ ResetFails(w) \/ DropOld(w)
    \/ \E r \in proxies : DeleteProxy(r)
    \/ \E p \in marks : MarkExpires(p)
    \/ \E w \in Agent, p \in messages : StartDeleteTask(w, p)
    \/ \E w \in Agent, o \in Order : StartReset(w, o)
    \/ \E w \in Agent : \E p \in errand[w].targets : NextTarget(w, p)
    \/ \E w \in Agent, n \in Name, hosts \in Deliveries : CreateAgain(w, n, hosts)

ProxySpec == ProxyInit /\ [][ProxyNext]_proxyVars

-----------------------------------------------------------------------------
(* Properties.                                                             *)

(* Isolation of customers: nothing but a deletion or a reset of its own    *)
(* name takes a delivered proxy off its server, whatever requests of       *)
(* whatever jobs fail or overlap.                                          *)
DeliveredIsServed ==
    \A r \in proxies :
        PairOf(r) \in touched \/ r.name \in accounts[r.host]

(* If in addition no request failed and no access list was written over a  *)
(* newer one, every such proxy has its lines in the list of its server -   *)
(* unless the server refused the name of the delivery: the proxies then    *)
(* have a random name, and the lines are those of the refused one.         *)
DeliveredHasAccess ==
    ~raced /\ failures = 0 => \A r \in proxies :
        PairOf(r) \in touched \/ r.name \in renamed \/ r.name \in access[r.host]

(* The agent has the proxies of the name on the host and yet to create     *)
(* their rows, or is deleting the name there.                              *)
Busy(w, p) ==
    \/ /\ errand[w].pc \in {"read", "write", "rows"} /\ errand[w].answered
       /\ p = <<Head(errand[w].hosts), errand[w].given>>
    \/ errand[w].pc = "user" /\ errand[w].pair = p

(* No account is left behind: while no request failed, a server has only   *)
(* users with a proxy, with a deletion message or with a job at work on    *)
(* them - except names deleted while the mark of an earlier deletion       *)
(* stopped the message.                                                    *)
DeletedIsGone ==
    failures = 0 =>
        \A h \in Host : \A n \in accounts[h] :
            \/ \E r \in proxies : PairOf(r) = <<h, n>>
            \/ <<h, n>> \in messages \cup unannounced
            \/ \E w \in Agent : Busy(w, <<h, n>>)

(* A reset that succeeds leaves none of the proxies it found, if they had  *)
(* one user name: with several it deletes the accounts of all of them, but *)
(* only the rows of the last.                                              *)
ResetReplaces ==
    [][\A w \in Agent :
          errand[w].pc = "drop" /\ errand'[w] # errand[w]
          /\ (\A r, s \in errand[w].old : r.name = s.name)
          => errand[w].old \cap proxies' = {}]_proxyVars
=============================================================================
