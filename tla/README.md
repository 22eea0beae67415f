# Verification of mentos_shop_backend

TLA+ models of a Django/celery backend that sells proxies: TLC checks them on
small instances, TLAPS proves theorems about them for every instance.

## 1. The system

Shopify tells the backend by webhook that an order was paid. The backend takes
subnets from its stock, has a proxy server ("kaxy") create a user on each subnet,
records one `Proxy` row per address, and removes everything when the order
expires. Gunicorn runs several processes, each webhook starts a thread, and celery
(prefork workers, a beat) runs the long jobs; all of them share one SQL database
in autocommit mode and one redis.

| Component | State | Operations | Interacts with |
|---|---|---|---|
| Subnet stock (`proxy_server/models.py` ProxyStock, `products/services.py`) | one row per (CIDR, ACL, cart_step): available subnets, exclude and delete flags, counters | `get_available_cidrs`, `remove_available_subnet`, `return_subnet`, the exclude_acl handler, `update_product_acl`, `add_product_other`, `update_ip_stock` | delivery, return, product stock |
| Delivery (`orders/services.py`) | `Proxy` rows, order status and delivery counts, lock `create_proxy_by_id_{pk}` | `create_proxy_by_order_obj` from the webhook, `delivery_order`, `devery_order`, `one_key_delivery_order`, `reset_proxy` | stock, kaxy, orders |
| Deletion and return (`post_delete` of Proxy, `stock_return_task`) | redis keys `stock_return_task:*`, `delete_proxy_task:*`, celery queue, lock `return_subnet_lock_{id}` | deletion of single proxies, queryset and cascade deletions, the two tasks | stock, kaxy |
| Order life cycle (`orders/*`) | pay, order, delivery and renew status, `expired_at` | checkout, webhook, renewal, the expiry and clean-up sweeps of the beat | delivery, deletion, Shopify |
| Proxy reset (`proxy_server/tasks.py`) | lock `reset_proxy_{pk}` (five minutes) | delete the accounts, create anew, delete the old rows | delivery, deletion, kaxy |
| Kaxy client (`utils/kaxy_handler.py`) | a failure counter per server in redis; the server's users and ACL text | create and delete users, read-modify-write of the ACL text | delivery, deletion, reset |
| Product stock (`products/*`, signals in `proxy_server/models.py`) | counted stock per product option, redis hash `product_stocks` | recount at each save of a row and change of servers | stock |
| Users, levels, points, invitations, Discord binding (`users/*`, `authentication/*`, `rewards/views.py`) | whole rows of users, point records, invite log, level thresholds | rewards of a payment, log-in, ban, password, binding, levels | orders (rewards on payment) |
| Coupons and gift cards (`rewards/*`) | `is_used` | use, edit, exchange | orders |
| E-mail codes, captchas, site settings, tickets | a few rows or cache keys each | see `PROJECT.json` | - |
| API documentation page (`static/drf-yasg/*.js`) | in the browser: keys the user granted, in memory, in Swagger UI, in localStorage and in URLs; the persistent collections of immutable.js | authorize, log out, reload, fetch the specification | the backend's `?format=openapi` |

The scripts of the last row are vendored: immutable.js is the library of that name and
swagger-ui-init.js comes with drf-yasg. They are served by this backend and are all of its
JavaScript that is neither bundled nor minified, so they are modelled as well, after the
backend itself.

Hard behaviour, in order of importance:

* a stock row is read and saved as a whole, by jobs that last minutes and share no
  lock: deliveries of different orders, returns, administrative saves;
* a deleted subnet must come back to every row it was taken from, through a task
  that is suppressed by a redis key, delayed by a minute and stopped by holders;
* locks without a timeout, locks with a timeout shorter than the job, crashes;
* sweeps that decide on data read before a renewal;
* read-modify-write of users (points), of ACL texts and of orders from threads;
* requests to proxy servers that fail after the server has executed them;
* counts kept in a table and in redis, written inside and outside transactions;
* nodes shared between versions of a collection and edited in place by mutable copies.

What makes each component correct: no subnet is sold twice on a row; none is for
sale while it is in use; none is lost; an exclusion holds; an order gets one
delivery at a time and fills end at its quantity; locks and tasks do not hang; an order
and its proxies expire together, are renewed together and are removed when expired and
not before; a customer's account and ACL lines on a server are touched by nobody
else's deliveries, resets and deletions; the stock a product shows is the stock on sale;
points are neither lost nor paid twice and a save of one column does not undo another;
the documentation page sends, shows and stores the keys the user granted and no others,
and a persistent collection never changes.

## 2. Plan

1. *(done)* `SubnetPool`, `StockDelivery`, `StockSerial`: stock, delivery, return.
2. *(done)* `Subscription`, `OrderLifecycle`, `OrderSerial`: webhook, renewal, sweeps; the
   abstract specification "a paid order has proxies until its current expiry".
3. *(done)* `ProxyServer`: delivery, reset and deletion over several servers, request by
   request.
4. *(done)* `Accounts`: users, rewards, levels, coupons, Discord.
5. *(done)* `ProductStock`: recount, redis hash, `update_ip_stock`.
6. *(done)* `Trie`, `PersistentList`, `PersistentMap`, `OrderedMap`, `SpecLoader`.
7. *(done)* Proofs: the invariants of `ProxyServer` and `Accounts`, that `StockSerial`
   implements `SubnetPool`, the other invariants of the stock and the order, and those of
   `ProductStock`, `SpecLoader` and `OrderedMap`. `PersistentList` and `PersistentMap` stay
   with TLC (section 5).
8. Left over: several cart_steps on a CIDR, the monthly decay of level points, the
   failure counter.

## 3. Modules

### SubnetPool - what the stock promises
Three variables: `offered` per row, `claimed` and `held` per order. An order claims a
subnet on all its rows at once (`Claim`), is given proxies (`Give`), ends the delivery of
that subnet (`Settle`), loses proxies (`GiveUp`); a row takes a subnet back only when
nobody uses it on that row (`TakeBack`).

### StockDelivery - the code
A *worker* is a thread or process with one *job* at a time; `job[w]` holds the local
variables of the running function and `pc` says which database, cache or kaxy access
comes next. Everything between two such accesses is one step.

| Model | Code |
|---|---|
| `stock[r]`, `job[w].snap` | ProxyStock row; the copy a job has in memory. `save()` writes every column, so a save replaces `stock[r]` by the copy |
| `proxies[o][s]` | number of Proxy rows of order o with subnet s |
| `lock`, `rowLock` | redis locks `create_proxy_by_id_{pk}` (blocking, no timeout) and `return_subnet_lock_{id}` (one try, 30 s); `Orphan` is the lock of a dead holder |
| `returnKey`, `queued` | redis keys `stock_return_task:{ids}_{subnet}`; messages waiting in celery |
| `StartFull`, `StartFill` | `create_proxy` / `devery_order` |
| `AcquireLock` ... `Finish` | `create_proxy_by_order_obj`: lock and count, `get_available_cidrs`, per subnet the kaxy call, the Proxy rows, the two saves per stock row (`remove_available_subnet`, then the counters), saving the order |
| `KaxyFails` | the returns from inside the loop |
| `DeleteProxy`, `DeleteOrderProxies`, `PostDelete` | `proxy.delete()`, `queryset.delete()` or a cascade, the `post_delete` handler |
| `StartReturn`, `CheckHolders`, `TryRowLock`, `GiveBack` | `stock_return_task`, `return_subnet`, `_return_subnet` |
| `StartExclude`/`CommitExclude`, `StartRefresh`/`SaveRefresh` | the `exclude_acl` handler in its transaction; `update_product_acl`, `add_product_other` |
| `Crash`, `RowLockExpires`, `KeyExpires` | process death (celery acknowledges early, so the task is lost); redis timeouts |

Abstractions: orders are paid and unexpired (the checks at services.py:194-201 pass);
addresses, user names, ACL texts and e-mails are left out; a subnet is its network address,
a row a (CIDR, ACL) pair with one `cart_step`; the rows of the several CIDRs of an order are
read in one step (the code reads them CIDR by CIDR); the write of a returned row and the
release of its lock are one step; `ip_stock` and `cart_stock` are not kept, so the second
save of a row writes the same subnets as the first - it is still a step, since it can
overwrite somebody else's save.

Definitions named as mutants in `PROJECT.json` are the changed code each property is
tested against; no specification uses them.

### StockSerial - the deployment in which the code is correct
`SerialSpec` restricts `StockDelivery` to behaviours in which no two jobs in progress have
read a common row (`Apart`) and no process dies. Nothing in the code enforces this: it is
what an operator would have to arrange (one queue with one worker per server group). It
shows that the interleavings are the *only* cause of the double sales found below.
`SpacedSpec` adds that a subnet's proxies are deleted together and not within five minutes
of an earlier deletion. `SerialInv` is the inductive invariant; `ImplementsPool` states the
refinement of `SubnetPool`: a subnet being claimed is not offered, whatever the rows still
say, as long as the claiming job has not saved them.

### MCStock - instances
One CIDR, two subnets, two orders, two workers, one or two ACLs; order o1 uses ACL a1, order
o2 uses a1 and a2, so that claims of one and of two rows meet on a common row.

### Subscription - what an order promises
The order's term, whether it is paid, the expiry of each proxy, and whether somebody has
asked for a change (`open`). Proxies are given to a paid order with its term (`Give`); a
renewal moves order and proxies in one step (`Extend`), so does a new date
(`Reschedule`); proxies go when expired (`Expire`, `Lapse`) or when asked for
(`Withdraw`, `Cancel`).

### OrderLifecycle - the code
One order; jobs as in StockDelivery, with `entry` the order as `webhook_handle` read it,
`copy` the order as the called function read it and `rows` the proxies it read.

| Model | Code |
|---|---|
| `order` | pay_status, order_status, expired_at, renew_status of the row, `None` once deleted. `save()` writes the copy, and inserts the row again after a deletion |
| `proxies[s]` | expired_at of the s-th Proxy row; goes with the order (`on_delete=CASCADE`) |
| `StartWebhook`, `DropWebhook`, `Named` | `ShopifyWebhookApi.post`, `webhook_handle_thread`: the test of thread names sees the threads of its process (`ProcessOf`) |
| `SavePayment` ... `SaveRenewal`, `SaveFailure` | `webhook_handle`, `renew_proxy_by_order` |
| `FindOrder` ... `FinishDelivery`, `StartTask` | `create_proxy_by_order_obj` from the webhook, from `delivery_order`, `one_key_delivery_order` (whole quantity) and `devery_order` (what is missing) |
| `StartOrderCheck` ... `MarkExpired` | `check_order_expired` |
| `StartProxySweep`, `SweepProxy` | `delete_proxy_expired` |
| `StartTimeout`, `DeleteTimedOut` | `delete_timeout_order` |
| `StartClosing` ... `DropOrder` | `delete_expired_order`, both functions of that task name |
| `StartOld`, `CheckOld`, `DeleteOld` | `delete_old_order` |
| `StartWithdraw`, `StartRedo`, `StartDestroy`, `StartDate`, `StartLink` and their steps | `delete_proxy`, `one_key_delivery_order`, `destroy`, `update_proxy_expired_at`, `order_renew_checkout` |
| `Crash` | death of a process; the delivery lock stays |

Abstractions: proxies are made one by one up to the quantity, and a delivery may stop short
after any of them, for lack of stock or because the server fails (StockDelivery has the
details). Each sweep is its treatment of this order: the orders of a sweep are independent.
The read of an order and the tests on the copy are one step. Time is a counter of abstract
units with the code's comparisons (`<`, `<=`) kept. Shopify is free to notify a payment or
a renewal at any time: `order_renew_checkout` does not ask whether the order is paid.
Coupons, points and levels after a payment are in `Accounts`.

### OrderSerial - one job of an order at a time
`SerialSpec`: at most one job in progress, no notification while one is, no crash. Again
the code does not enforce this. The mapping to `Subscription` gives what the buyer
sees: a renewal counts when the order is saved (until then extended proxies are seen at
their old date, `Kept`), a new date when the proxies have it (`Term`), a deletion or new
date asked for is `Open`. `SerialInv` is the inductive invariant: no job's copy is stale
(`Fresh`), and every proxy expires with its paid order (`RowsOK`).

### MCOrder - instances
Two workers in one process; one or two proxies; a clock of 0 to 5. `CleanSpec` is `FairSpec`
with two notifications and a crash, or with one notification and one administrator's call.

### ProxyServer - accounts and access lists
An *agent* is a celery worker or webhook thread with one *errand*. Every request to a server
is a step; `Answers` are its outcomes: it succeeds, or it is reported as failed, and then it
may have been executed all the same, and the client's `status` is False (an exception, a
status other than 200) or still True (an error in the body, or the failure counter keeps the
request back). The servers are external: `accounts` and `access` (the names with lines in the
ACL text) are what the code's requests make of them.

| Model | Code |
|---|---|
| `StartDelivery`, `MakeClient`, `CreateUser`, `ReadAccess`/`WriteAccess`, `CreateRows` | `create_proxy_by_order_obj`, `KaxyClient`, `create_user_acl_by_prefix`, `add_user_acl`; the inner loop over `server_acl_list` is kept, with its flag of the wrong server |
| `RenameUser`, `RefuseUser`, `RefusePrefix` | the answers "Bad format for user." (another attempt with a random name, `Tries` in all, then no proxies) and "Invalid prefix." (an exception, on which the delivery gives up) |
| `NextSubnet`, `GiveUp` | the loop over the subnets, which stops at a client whose last request failed (`down`) |
| `StartReset`, `NextTarget`, `CreateAgain`, `DropOld` | `reset_proxy_fn` |
| `DeleteProxy`, `Delete`, `MarkExpires` | the `post_delete` signal, its key of three minutes |
| `StartDeleteTask`, `DelUser`, `ReadList`/`WriteList` | `delete_proxy_task`, `del_user`, `del_acl` |

A proxy row stands for the rows of one subnet. A refusal is an answer and not a failed
request: it is not counted by `failures`, leaves nothing on the server and may come at any
time. After one the rows have the random name (`given`), while `add_user_acl` writes the lines
of the first (`name`): the caller does not learn the new one. User names are new ones: they
begin with digits of the time or are random, and the code does not look for a collision. An
answer with status 200 is JSON.
`touched` (pairs of server and name that were deleted or reset), `renamed` (the random names
after a refusal), `raced` (an ACL text was written over a newer one) and `unannounced` (a
deletion while the key of an earlier one suppressed the message) are history variables the
properties use for exceptions.

### Accounts - users, rewards, levels, coupons
A job reads a user as a whole row and saves it as a whole row. `StartPay` ... `UpdateLevel`
is the end of `webhook_handle`; `StartEdit`/`SaveEdit` are log-in, ban, password, invitation,
Discord binding, the points of the bot and the update of a user by a form (`UserApi.update`
with `UserUpdateSerializer`, which accepts `is_active`, `level_points` and `reward_points`; a
column it does not send is `None` in `Forms`); `StartLevels`, `StartRelevel`, `RelevelUser` are
the change of the thresholds with its thread; `StartCouponEdit` the edit of a coupon, whose form
sends `is_used` or does not (`flag`). A password is changed for inactive users as well: by an
administrator, or with a code sent by e-mail.

The update by a form sets rewards without a point record. So the properties do not say that
rewards are what the records sum up to; they say that records and forms together explain them:
`raised` and `lowered` are histories of what forms have added to and taken from the rewards of
the copy they were sent for. `overlap` records that two jobs had copies of one row.

### ProductStock - the stock a product shows
`stocks`, `excludeAcl`, `groups` and `products` are the tables, `shown` is the redis hash. A
delivery counts, writes the product and writes the hash in three steps; a return, a change
of `exclude_acl` and one of servers are transactions with three: the reads, `Publish` (the
writes, locked and not yet visible, and the hash, visible at once) and `Commit`, or a
rollback. The servers of a group are folded into the ranges they have; one variant and one
cart_step to a group. `mixed` records that two jobs held one row or counted one product at
once, `owed` the products without a recount since a change that calls none, or since a
job that ended with an error.

### MCServices - instances
A sum: the variable `part` picks `Accounts`, `ProxyServer` or `ProductStock`, the others rest.
They share no state, so one run checks the three. Two workers, two users, one coupon, one
Discord account, two forms (one gives rewards and takes level points, one takes rewards from a
user it bans); two ranges of one subnet each and two groups with a range in common. For
`ProxyServer` two servers, one delivered order on both and a second order to deliver, and three
user names, in two parts: in "proxies" a delivery has a subnet on each server, in "clients" both
on one. In the first every client is used for one subnet and its status is never asked for again,
so the steps that only differ in it are left to the second.

### Trie, PersistentList, PersistentMap, OrderedMap - immutable.js
A heap of nodes with owners; a version refers to nodes, several versions share them, and a
mutable copy edits in place the nodes it owns. The operators follow the functions of the
file (`UpdateVNode`, `SetListBounds`, `RemoveBefore`, `UpdateNode`, `PackNodes`, ...); each
operation of the public interface is an action that makes a new version or changes a mutable
one, and next to the tries a plain sequence or function per version says what it should
show. `SHIFT` is a constant (5 in the source, 2 in the run) and so are the sizes at which
nodes change their form. `OrderedMap` has its map and list as values: sharing of nodes is
the other modules' subject, holes and compaction are its own. Its loops (filter, the changes
inside `withMutations`) are recursive functions of the position they have reached, and
not RECURSIVE operators, so that proofs can use them.

These exceptions in the properties are behaviour of the code as it is. A list that was
cut off keeps some values beyond its end, which a later growth shows again (`Gap`,
`listTrimmed`); removal from the middle of a *mutable* list empties it (`Remove`); a mutable
map that removes one of two colliding keys shares an entry with the version it came from
(`mapShared`); a compaction that leaves no entry gives the one empty list an owner
(`emptied`).

### SpecLoader - swagger-ui-init.js
Tabs with a page each: `savedAuth`, what Swagger UI has as authorized, its URL, requests in
flight, `specRequestsInFlight`, pending timeouts; one localStorage. Swagger UI itself is
external. `ClosePage`/`OpenPage` are a reload, `Respond` a response in any order, a failure
included.

### MCBrowser - instances
A sum of the four, as in MCServices.

## 4. Runs

| Run | Specification | Checks | Result |
|---|---|---|---|
| StockSale | SerialSpec, 2 addresses per subnet | `TypeOK`, `SoldOnce`, `HeldNotOffered`, `ReturnedIsOffered`, `ImplementsPool` | hold |
| StockConserve | SpacedSpec, 2 administrative saves, full deliveries, 2 addresses per subnet | `NoSubnetLost`, `ExclusionHonoured` | hold |
| StockLock | Spec, one order, full deliveries, one administrative save, one crash or lock timeout | `OneDelivery`, `FillsStopAtQuantity` | hold |
| StockProgress | FairSpec, one order, no faults | `LockIsReleased`, `ReturnsAreServed` | hold |
| StockDoubleSale | Spec | `SoldOnce` | violated |
| StockLost | SerialSpec, 2 addresses per subnet | `NoSubnetLost` | violated |
| OrderSale | OrderSerial's SerialSpec | `TypeOK`, `FollowOrder`, `RenewalsCounted`, `ImplementsSubscription` | hold |
| OrderClean | CleanSpec | `OneHandlerPerProcess`, `ExpiredAreDeleted` | hold |
| OrderDropped | Spec, one process | `RenewalsCounted` | violated |
| OrderTimedOut | Spec | `PaidNotTimedOut` | violated |
| Services | ServicesSpec | Accounts: `AccountsTypeOK`, `RewardsBacked`, `RewardsKept`, `DiscordOnce`, `ColumnsKept`, `CouponStaysUsed`; ProxyServer: `DeliveredIsServed`, `DeliveredHasAccess`, `DeletedIsGone`, `ResetReplaces`; ProductStock: `ShownIsStock` | hold |
| Browser | BrowserSpec | lists: `ListTypeOK`, `ListKept`, `ListIterates`, `ListOwnersApart`; maps: `MapTypeOK`, `MapKept`, `MapIterates`; ordered: `OrderedTypeOK`, `OrderedKept`; page: `UrlHasKeys`, `ShownIsSaved`, `StoredIsGranted` | hold |

The violations are disagreements of the code with its own texts and are described
under `findings` in `PROJECT.json`: two orders given one subnet; a subnet that no task
returns; a renewal that is acknowledged and dropped; a paid order deleted by a sweep that
read it unpaid. `SoldOnce`, `NoSubnetLost` and `RenewalsCounted` also appear in a run that
holds: one job at a time, they are true.

Several properties that hold set aside the very overlap their hazard begins with: `SerialSpec`
of the stock and of the order admits no two jobs on common rows or on one order, and `overlap`,
`mixed`, `raced`, `crossed` and `mapShared` are exceptions for jobs that met. They show that
nothing *else* breaks the promise - failures, repeated and partial work, long sequences, other
jobs on other rows - and so that the overlap is the only cause. The notes of `hazards` in
`PROJECT.json` say for each hazard which part is shown, by which run, and which is not.

More such behaviour is in the models without a run of its own: the second of two return
tasks of a row finds its lock taken and reports success (`TryRowLock`); a dead process
leaves the delivery lock taken (`Crash`); two processes handle one order at once (`Named`
looks at one process); a renewed proxy is deleted by a sweep that read it before
(`SweepProxy`); an order is renewed by a payment that comes after its expiry
(`SaveRenewal`); orders are old after 15 days, not after the month of the docstring
(`StartOld`).

Bounds of the stock runs: `MaxFull` full deliveries per order, `MaxQueued` equal return
tasks waiting, `MaxTouches` administrative saves, `MaxFaults` crashes and early lock timeouts. Two subnets
let a delivery loop and let it run out; two orders, two workers and two ACLs give every
pair of jobs, rows shared in part, and claims of different sizes; a double sale, a lost
update or a lock conflict needs two parties. Fills repeat without bound, so deliveries,
deletions and returns alternate indefinitely. `SYMMETRY` permutes the two workers, in runs
without liveness only.

Bounds of the order runs: `MaxTime` ends the clock, `MaxCalls` bounds notifications,
`MaxAdmin` administrative calls, `MaxFaults` crashes. Two slots are needed for a renewal
that is half done and for a delivery that stops short; with `Period` 2 and a clock of 5 an
order is paid, renewed, expires and becomes old, with `MaxCalls` 3 it is renewed twice.
Sweeps, fills and renewal links repeat without bound. In OrderClean, where everything may
interleave, one proxy, two units of time, two notifications with a crash, or one with an
administrator's call, are enough: two handlers need two notifications, and a proxy that
stays needs a job or a dead job beside the sweep.

Bounds of Services: `MaxJobs` 3 jobs on users by 2 workers (an update is lost by two, the
third makes the loss visible), `MaxSavers` 2 jobs on the stock beside deletions of ranges and
cleared servers, which are not bounded. Two groups with one range in common are what a recount
can miss.

For ProxyServer `MaxStarted` is 2 deliveries, resets or deletions besides the delete tasks they
cause, `MaxFailures` 1 failed request, `Tries` 2 attempts to create a user (5 in the source):
the first can be refused, and the last. Of the two names still to be given one is that of a
delivery and the other that of a second delivery or of a refused first. Two subnets on two
servers show the inner loop over `server_acl_list`; two on one server use a client again, also
after a failed request.

Bounds of Browser: `SHIFT` 2 makes nodes of four slots, so a list of 3 to 19 items has
one to three levels, and `MaxMapOps` and `MaxListOps` 3 operations on up to four versions
cross the boundaries of tail, root and levels and the changes of form of a map node; a
first list and first maps on both sides of a boundary save the operations to get there.
Keys 1 and 2 collide and key 3 shares a digit with them. Six operations on an ordered map
of four slots make holes and compact them, with a mutable copy alive. Two tabs, a query key
and an OAuth2 scheme, two credentials and `MaxSpecOps` 4 actions of the user, with responses
in any order.

Deadlock is checked in the stock runs except StockLock, where a crash can leave a lock that
all the workers wait for: the system really stops there. It is not checked in the order
runs: the clock is bounded, and once the order is deleted and all notifications have
come nothing is left to do. Nor is it in Services and Browser, whose jobs and operations are
bounded; their properties are safety properties and need no fairness.

Fairness (`FairSpec`): weak fairness of the next step of each started job - a running thread
or process is scheduled, calls to kaxy have HTTP timeouts, and a blocked acquisition is not
enabled. Strong fairness that a waiting return task is started - celery's queue is first
in, first out, and free workers come up again and again. Weak fairness of the timeout of an
orphaned row lock - redis keys with a timeout expire. Deletions, key timeouts and new jobs
are never forced. In `OrderLifecycle` `FairSpec` adds to the weak fairness of started jobs
the strong fairness of the start of `delete_proxy_expired`: the beat sends it every 9500
seconds and celery's queue is first in, first out. `ExpiredAreDeleted`
excepts a worker that died, since the delivery lock it leaves can block all workers for ever.

## 5. Theorems

`StockDelivery_proofs` (for `Spec`: every interleaving, any number of workers, orders, rows
and faults):

* `TypeCorrect`: `TypeOK`, which includes `JobOK`, the relation between a job's program
  counter and its fields. `TypeOK` is inductive as it stands; one lemma per group of actions.
* `DeliveriesExclusive`: `OneDelivery`, from the strengthening `LockInv`: a worker in the
  delivery region owns its order's lock.
* `FillsStop`: `FillsStopAtQuantity`. With `LockInv` it needs `FillInv`: while no full
  delivery was asked for, a fill under way still has the room it counted under the lock, and
  begins no subnet beyond it (`FillOK`, `FillJob`), since only the owner of the lock adds
  proxies and others only delete. The theorem supposes that some answer of the proxy server
  has a proxy or that every quantity is positive: the invariant is strict, and an order for
  nothing at a server that gives nothing is at its bound from the start.

`StockSerial_proofs` (for `SerialSpec`):

* `SerialCorrect`: `SerialInv`; `SerialSoldOnce` and `SerialHeldNotOffered` follow. Neither
  of the two is inductive: `RemoveSubnet` writes a row from a copy, so `WorkOK` must say that
  a job's copies are what the table has, that a delivery's plan is still on offer, that
  nobody else uses the subnet it is taking, and that nobody uses what a return is about to give
  back. `Frame` shows that what a worker does to its own rows leaves the others' `WorkOK`
  alone, because their rows are disjoint; `QuietStep` and `QuietEnvironment` handle the
  steps that change neither offers nor holders; the remaining lemmas are one per action.
* `SerialReturnsAreOffered`: `ReturnedIsOffered`, from `RowLocked`: a row is locked by the
  return that is writing it and by nobody else, so that no return is turned away.
* `SerialExclusion`: `ExclusionHonoured`, from `LabelsFresh`: the table has the labels that
  `exclude_acl` says, and so has every copy except those of the job that is changing them.
* `SerialImplementsPool`: the refinement of `SubnetPool` by `ImplementsPool`, one lemma per
  action: `CreateUser` maps to `Claim`, `CreateProxy` to `Give`, the last save of a subnet's
  rows to `Settle`, deletions to `GiveUp`, `GiveBack` to `TakeBack`, all others to stutters.
* `SpacedNoSubnetLost` (for `SpacedSpec`): `NoSubnetLost`, from `NothingLost`: a subnet that a
  row does not offer is used by an order or a waiting message (`Used`), or a return has still
  to give it back (`Pending`); and what a delivery is about to take off the rows is used
  (`InHand`). It supposes that the proxy server never answers with an empty list. The code takes such a subnet off the rows although no
  proxy was made, and nothing brings it back: with `KaxyAnswers = {0, 2}` TLC finds
  `NoSubnetLost` violated in StockConserve, so the hypothesis cannot be dropped.

`OrderSerial_proofs`, first for `Spec` of `OrderLifecycle` (every interleaving, any number of
proxies, workers, processes and faults):

* `OrderTypeCorrect`: `TypeOK`, whose `JobOK` relates program counter and copies, and which
  says that no proxy is left without its order.
* `HandlersApart`: `OneHandlerPerProcess`. It is inductive by itself: only `StartWebhook`
  makes a worker a handler (`HandlerOrigin`), and it looks at the others first.

then for `SerialSpec`:

* `SerialInvariant`: `SerialInv`. `FollowOrder` alone is not inductive: `SaveRenewal` and the
  sweeps write from copies, so `Fresh` must say that the one job's copies are current.
* `ProxiesFollow`: `FollowOrder`.
* `RenewalsAdd`: `RenewalsCounted`, from `CountInv`: what the row has counted, and the
  renewal that the one job in progress still owes it, are all the renewals notified (`Sums`),
  and a job's kind agrees with its program counter (`ModeOK`).
* `Implements`: the refinement of `Subscription`. `View` and `ViewNext` compute the mapping
  when one worker `w` is busy; `Unseen`, `Plain` and `Expiry` handle steps that the buyer
  does not see or sees as an expiry; one lemma per group of actions maps the others
  (`SavePayment` to `Pay`, `CreateProxy` to `Give`, `SaveRenewal` to `Extend`, `DateProxies`
  to `Reschedule`, deletions to `Lapse` or `Cancel`).

`ProxyServer_proofs` (for `ProxySpec`: any number of servers, names, orders and agents, any
failed requests, every interleaving):

* `ProxyInvariant`: `ProxyInv`, that is `ProxyTypeOK`, `DeliveredIsServed`,
  `DeliveredHasAccess` and, for each errand, `ErrandOK`. The two properties are not
  inductive, since rows are made several requests after the account and its lines:
  `ErrandOK` says what the errand has already obtained: an account for the name it was given
  (`given`), lines for the name it asked for, and that the two differ only by a refusal
  (`renamed`). `WriteAccess` and
  `WriteList` write a text from a copy, so that the lines of others survive only while no
  newer text is overwritten (`Calm`). `Progress` collects what every step guarantees to all
  the others (accounts and lines go only with a name that was deleted or reset), and
  `ErrandKept` derives from it that the errands of other agents stay in order; the
  remaining lemmas are one per action.
* `ProxyTypes`, `DeliveredStaysServed`, `DeliveredStaysListed` follow from it.
* `ResetLeavesNoOldRow`: `ResetReplaces`. By `LocalOK` the pair a reset has in hand is that
  of a row it found, and the rows it makes have another name.
* `NoAccountLeftBehind`: `DeletedIsGone`, which with `ProxyInv` is inductive by itself:
  `AgentGone` says what the step of one agent must account for, and one lemma per action shows
  that it does.

`Accounts_proofs` (for `AccountsSpec`: any number of workers, users, levels, coupons and jobs,
every interleaving):

* `AccountsInvariant`: `AccountsInv`, in three layers. `Shape` is the types and which copies
  a program counter needs. `RewardInv` adds that no copy of a row has more rewards than
  records, saved rewards still to be recorded and forms explain (`Bounded`, `Total`) and, while
  no jobs have overlapped, that copies are current (`Fresh`), that jobs work on different rows
  (`JobsApart`), and that rewards and what forms took of them add up to that total exactly.
  `AccountsInv` adds that, while no jobs have overlapped, a job about to save a coupon does not
  take its use back unless its form says so (`UsesCoupon`) and a binding about to be saved is of
  an account that nobody has (`BindsFree`).
* `AccountsTypes`, `RewardsAreBacked`, `RewardsAreKept`, `DiscordIsOnes` follow; so do the two
  action properties `CouponsStayUsed` and `ColumnsAreKept`, by `CouponStep` and the lemma that
  a save changes the columns of its job only.
* Every action is first shown to be a `Job`: one worker moves, knows the copies it keeps,
  and saves nothing or one row, whose change of rewards is a payment's or is noted as a form's
  (`Accounted`). The layers are then proved about `Job` and not action by
  action. The level of a user is the highest threshold reached, a `CHOOSE`; `HighestExists`
  shows by well-foundedness that there is one.

`ProductStock_proofs` (for `ProductSpec`: any ranges, groups, labels, jobs and failures, every
interleaving):

* `StockInvariant`: `StockInv`. While no two jobs held one row or counted one product
  (`~mixed`), tables and labels agree (`Labels`), and a transaction counts every product whose
  rows it changes (`JobOK`, `Covered`). `Counts` is the argument proper: a product whose number
  is not its stock is in `owed`, counted by a job that will write it, or in the queue of a
  job that saved one of its rows (`Awaited`). A rollback must leave this true though the hash
  was written before it: it puts the counted products into `owed`.
* `StockIsShown`: `ShownIsStock`. No step of the proof adds anything up: it suffices that the
  count of a product depends on the rows it sells and on nothing else (`SameCount`).

`SpecLoader_proofs` (for `LoaderSpec`: any number of tabs, schemes, keys and documents,
responses in any order):

* `LoaderInvariant`: `LoaderInv`, for each page `HookOK`, `PendingOK` and `UrlOK`. The URL a
  page shows may lack the keys while an `update` or `check` timeout will still set it (`UrlOK`), so
  the invariant must know the URL of every timeout, of every request that may cause one, and
  that a request whose URL was changed is still remembered in `specRequestsInFlight`; as that
  set has URLs and not requests, it must also know that no two requests have one URL
  (`PendingOK`). `HookOK` says why the first `preauthorizeAll` may merge: nothing was
  shown before it.
* `KeysAreInUrls`, `SavedIsShown`, `GrantedIsStored`: `UrlHasKeys`, `ShownIsSaved`,
  `StoredIsGranted`. `DownloadOK` is shared by the four actions that start a request,
  `ChangedOK` and `SavedOK` by log-in and log-out.

`OrderedMap_proofs` (for `OrderedSpec`: any keys and values, merged and subtracted sequences
of any length, any number of versions and operations, in place or not):

* `OrderedTypeCorrect`: `OrderedTypeOK`; `OrderIsKept`: `OrderedKept`. Both follow from
  `OrderedInv`: every object is typed and its map `Fits` its list - it has the position of
  each entry and nothing else - and, unless `emptied`, every version shows its value.
* One change of one object is `SetKeyOK` and `RemoveKeyOK`: the map still fits and the entries
  shown are those of `EntriesSet` and `EntriesWithout`. The three outcomes of a removal are
  `PoppedFits` (the last entry is popped), `BlankFits` (a hole) and `FlipFits` (the
  compaction, which numbers the entries anew). `SetKeysOK` and `RemoveKeysOK` carry this through
  all the changes made inside one `withMutations`. There the result counts only if it says that it
  was altered (`Mutated`), and a compaction forgets that the map was: `RemoveKeyOK` says why this
  does no harm, as the list still remembers it unless nothing is left, and that case is `emptied`.
* What a filter shows after each kind of change is reduced to laws of `Dropping` (`DroppingAppend`,
  `DroppingTwice`, `DroppingEach`, `DroppingAgrees`). They are inductions over sequences, done
  with a *set* in the place of the library's operator parameter: `NatSetInduction` shows by
  well-foundedness that a set closed under successor has all numbers, `SeqSetInduction` lifts it to
  sequences, and `RecursionExists` gives the function a recursive definition over `0..N`
  defines.

Assumptions: `StockAssumption`, `OrderAssumption`, `ProxyServerAssumption`,
`AccountsAssumption`, `SpecLoaderAssumption`, `TrieAssumption` and `OrderedAssumption` only
(finitely many subnets, proxies and workers, well-typed constants, `None`, `Nobody`,
`Undefined` and the lock values distinct from data; there is a document, and a corrupt content
of localStorage is no authorization; a digit has more than one bit); TLC evaluates them
in every run that extends their modules. `FillsStop` and `SpacedNoSubnetLost` have the
hypotheses named above.

Only model-checked:

* liveness (`LockIsReleased`, `ReturnsAreServed`, `ExpiredAreDeleted`), which the prover cannot
  do;
* the tries of `PersistentList` and `PersistentMap` (`ListTypeOK`, `ListKept`, `ListIterates`,
  `ListOwnersApart`, `MapTypeOK`, `MapKept`, `MapIterates`). They follow the recursion of the
  source down a heap with RECURSIVE operators, about which the prover cannot reason; unlike
  the loops of `OrderedMap`, which walk a list and change one object, these calls go down and
  come back with a heap that others share. Their digits and capacities are powers `2^level`, of
  which the provers know nothing. What TLC covers of them is in section 4: one to three
  levels, all forms of a map node, every boundary between them.

## 6. Not modelled

`components` in `PROJECT.json` has every part and the reason. In short:

* HTTP glue, serializers, permissions, formatting, mails, Shopify I/O, Discord's OAuth, server
  installation over ssh and command line tools: input and output without state that outlives
  a request.
* E-mail codes, captchas, site settings, tickets: one row or cache key at a time; nothing
  relates them to other state. `core/cache_lock.py` is used by no code.
* The failure counter of the proxy client: no text says what it promises. What it does to a
  request, to fail without being sent, may happen to any request in ProxyServer.
* Gift cards: their exchange reads a field that users do not have and ends with an error.
* Several cart_steps on one range and the counters of stock rows.
* Of users: registration and deletion, the user name, e-mail and superuser flag of the update
  form and numbers below zero in it, edits of point records by an administrator, the monthly
  decay of level points.
* Of coupons: creation and deletion, the weekly `check_coupon_code_expired` among them. Its
  docstring says that it deletes coupons that were used; it deletes those that were not.
* What the loading of a module does: three signal handlers of `proxy_server/models.py` have
  one name, Django keeps them by weak reference, and only the last (`post_delete` of Proxy)
  stays alive. The models follow the code that runs: no step deletes a range together with
  its relation to a server.
* Of immutable.js: lazy sequences, Stack, Record, Range, Repeat, hashing and equality. The bundled and
  minified scripts, redoc-init.js and insQ.js (they show and hide elements of the page).

The links between the models are assumptions, not checks: StockDelivery and ProxyServer both
have the delivery, one with the stock and one with the requests; OrderLifecycle has
deliveries that may stop short anywhere; Accounts begins where a payment was handled.
