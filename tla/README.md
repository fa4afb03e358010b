# asuna-node-server: a TLA+ model

asuna-node-server is a library of NestJS modules, on TypeORM, Redis and a handful of
providers, that applications assemble into a server. Several instances of a server run
side by side on one database; an instance runs many requests at once and changes from one
to the other at every `await`. Nearly everything the code does is "read rows, decide,
write rows" without a lock, and nearly everything that could go wrong is another request
between the reading and the writing. That is what the modules here are about. Paths below
are relative to `src/src/modules/` unless they begin with `src/`.

## 1. The system

| component | state | operations | what is hard | what makes it correct |
|---|---|---|---|---|
| operation tokens (`core/token`) | table `sys__t_operation_tokens` | obtain, redeem, deprecate, consume, check | check-then-insert; stale entities saved over each other; expiry known to the clock and to a flag | counts add up; spent and expired tokens stay useless; one usable token per key |
| log-in, refresh, one-time password (`core/auth`) | the tokens above, users, roles | createToken, refreshToken, otp, createUser, initSysAccount | deprecate and obtain are two steps; users are found, then inserted | one session's refresh token survives, the older ones do not |
| payments (`payments`) | orders, transactions, the providers' view | createOrder, pay, validateSign, handleNotify, checkPaymentStatus, updateOrder, cleanExpiredPayments | notifications lost, repeated, overlapping with a cron and a clean-up; two rows saved one after the other | paid orders are fulfilled and recorded, and none is on nobody's word |
| wallet and points (`property`) | wallet row, two ledgers | topUp, exchange, savePoints, exchangeVipVideo, migration | reads outside of the transaction, whole-column writes of sums | ledgers account for the columns; no overdraft |
| chunked uploads (`core/uploader`) | token body with finished bits, chunk files | create task, upload chunk, merge | parallel chunks save one row; a task is found again | a merge has all chunks, a complete upload can be merged |
| key-value store (`core/kv`) | key-value rows, models, static constant maps | set, update, delete, get, preload, regInitializer, merge constants | initialisers run on every instance at start; caches filled and cleared out of order | administrators' values survive; readers see the row in the end |
| cache (`cache`) | LRU caches, Redis keys | save (cache-first, cache-only), get, insert, clear | refresh behind the reader's back; Redis enabled but not connected | the cache heals |
| crons, locks, statistics (`helper/cron.ts`, `core/cron.service.ts`, `stats`) | Redis locks, counters | reg, onTick, addCronSuccessEvent, addCronFailureEvent | locks expire while a handler runs; counters read and saved | rounds exclude each other, failures are counted |
| bootstrap and lifecycle (`src/src/*.ts`) | lock `sync-db`, migrations in the store | syncDbWithLockIfPossible, onInit, signals | every instance starts at once; a signal in the middle | the schema is synchronised by one at a time |
| tenants (`tenant`) | tenants, users' tenants and roles, cached configuration | registerTenant, createStaff, checkPermission, checkResourceLimit, populate | check-then-create, counts before inserts, methods without their objects | a tenant is its owner's and his staff's, limits kept |
| WeChat (`wechat`) | WeChat users, administrators, access token | getAccessToken, syncAdminUsers, handleEvent | a lock nobody waits for; follow and unfollow in any order | the administrator follows the WeChat user |
| SMS (`sms`) | verify codes in the cache | sendVerifyCode, redeemVerifyCode | clear not awaited | a code is redeemed once |
| data loaders, entity events (`dataloader`, `core/bus`, `pub-sub`) | per-process caches | load, clear, publish, subscribe | events before the commit; channels nobody subscribed | loaders forget what changed |
| message queue (`providers`) | connection, channel | connect, retry | retry chains | one connection |
| identifiers, paging (`ids`, `core/helpers`) | sequence and last stamp | nextId, toPage, latestSkip, doPageSeries | 32-bit shifts, off-by-one | unique, complete |
| friends (`core/interaction`) | relations, one row per direction | request, accept, ignore, block, unblock | a transaction that reads outside of itself; rows found, then saved | friendship goes both ways |
| devices and sessions (`client`) | devices, sessions, session users | reg, getSessionUser | find-or-insert | sessions of a device share a user |
| everything else | none of its own, or I/O | REST, GraphQL, content, storage, email, search, tracing ... | - | - |

How they interact: log-ins, uploads and verify codes are operation tokens; the crons run
the payments' status query and clean-up and the tenants' population; tenants, points,
WeChat and email read their settings from the key-value store through the cache; the
payments call the handlers an application registers, which top up wallets; locks are
Redis locks of a library.

`PROJECT.json` lists the components with their files, and the hazards with their lines and
the properties that cover them.

## 2. Modules

The four components of the first half (tokens, payments, wallet, key-value store) have a
module with their state and actions (`X`), one with what they promise (`XProps`), and one
with proofs (`XProofs`). The smaller components of the second half state their properties
at the end of their own module, and two modules compose them: `Progress` (`Startup`,
`Upload`, and `Payment` with its cron) those with liveness, `Agreement` (`Scheduler`,
`WxToken`, `WeChat`, `Tenancy`, `SysAdmin`, `SignUp`, `Friends`, `Loader`) the others. These
parts share no state in the code (different tables, different locks), so a composed
behaviour chooses one part at its start (`part`) and the others rest in one of their initial
states; nothing is lost by that, and TLC checks the sum of the parts instead of their
product. The modules `MC*` give values to the constants for TLC, and nothing else. What is
proved of `Progress` and `Agreement` is proved of exactly what TLC checks.

| module | models | uses |
|---|---|---|
| `OperationToken` | tokens, log-in, refresh, one-time passwords | - |
| `Payment` | orders, transactions, notifications, the two crons | - |
| `Wallet` | wallet, points, video exchanges, the wallet migration | - |
| `KvStore` | key-value rows and the caches in front of them | - |
| `RedisLock` | the expiring lock of the Redlock library (external) | - |
| `Startup` | preload, schema synchronisation under `sync-db`, migrations, restarts | `RedisLock` |
| `Scheduler` | rounds of a cron on several instances, its success counter | `RedisLock` |
| `WxToken` | the WeChat access token, fetched under a lock | `RedisLock` |
| `Upload` | chunked uploads, implements `Assembly` | `Assembly` |
| `Assembly` | abstract: a file is put together from all of its parts or not at all | - |
| `WeChat` | follow and unfollow messages, the synchronisation of administrators | - |
| `Tenancy` | registration, permissions, limits, the population of tenants | - |
| `SysAdmin` | the system administrator every instance makes sure of | - |
| `SignUp` | profiles and users, verify codes by mail | - |
| `Friends` | who asks whom, accepts, ignores, blocks and unblocks | - |
| `Loader` | data loaders of one row, and the events that clear their copies | - |
| `Progress` | composes the parts that must get on | `Startup`, `Upload`, `Payment` |
| `Agreement` | composes the parts whose rows must agree | the eight others |
| `OperationTokenProps`, `PaymentProps`, `WalletProps`, `KvStoreProps` | what the four promise | their component |
| `OperationTokenProofs`, `PaymentProofs`, `WalletProofs`, `KvStoreProofs` | that they do | `...Props` |
| `ProgressProofs` | proofs about starts and uploads, that an upload is an assembly, and of the types | `Progress`, `PaymentProofs` |
| `LockProofs` | proofs about rounds of crons and the access token, both under a lock | `Agreement` |
| `AccountProofs` | proofs about the system administrator, sign-up and friends | `Agreement` |
| `ServiceProofs` | proofs about loaders, tenants and the followers' administrators, and of the types | `LockProofs`, `AccountProofs` |

An operator whose comment begins with "Faulty:", or whose name begins with `Faulty`, is not
part of the specification: it is a plausible bug of the definition that follows it, which
some property is known to detect.

**What an action is.** An action is one database round trip of one request together with
the computation up to the next one. `entity.save()` of TypeORM is two round trips: a SELECT
with which it finds out whether the row is missing and which columns of the entity differ
from it, and an INSERT or an UPDATE of those columns. A column that is stale in memory
counts as changed. Local variables of a request are fields of a record per request; fields
a comment calls "remembers" exist for the properties only and no guard reads them.

### OperationToken

`created` and `rows` are the table, `req` the requests, `now` the clock. `BeginObtain`,
`BeginLogin` (`TokenHelper.createToken` and the `otp` endpoint: deprecate, then obtain),
`BeginRefresh` (load, check, then log in) and `BeginConsume` start a request; `Deprecate`,
`FindExisting`, `FindNone`, `Create`, `Load`, `CheckRefuses`, `CheckPasses`, `Recheck`,
`SaveDiff` and `SaveWrite` are its steps in the order of the code. `setVerifyCode` and
`createChunksUploadTask` are `BeginObtain` with their own offers. `Newest` leaves the
choice among rows of the same `updatedAt` open, as the database does. The set `Flow` says
which calls a deployment makes: this repository itself never calls `consumeToken`,
applications do. Left out: `isActive`, which nothing sets to false, `extend`, which nothing
calls, and requests about tokens that do not exist, which have no effect.

### Payment

`order` and `txn` are the two rows of each order, `wk` the calls: requests run once, the
Crons are rounds of `check-wx-payment-status`. Whether the buyer paid (`paid`) is known to
the provider alone, and only the status query asks for it. A notification is taken at its
word: `validated` is the constant true (`payments/payment.notify.ts:61`), `validateSign` of
WeChat is yet to be written (`payments/payment.wxpay.helper.ts:151`), and the result it
reports is not read, so one about a payment that failed settles the order as well. It may
come any number of times: the reply to it is empty, not the word the providers wait for, so
they repeat it. `PaymentHelper.validateSign` is the callback of third-party providers
(exported for applications, no controller of the repository calls it); a sign is right
(`good`) if it is the one `pay` put into its answer, whoever sends it back. `claimed`
remembers the orders that a notification or such a sign came for: this is all that the code
goes by, and what `SettledOnWord` says. That a settled order was paid is not true of the
code and no property claims it. An order is notified about once the provider has it
(`HandedOver`), and only one of alipay or WeChat: that is what the providers are taken to
do, the handler itself compares neither. `UpdateOrder` puts the data into an entity that
`order.save()` does not cascade to, so the data is never saved and only the stale status of
the order may be. Deleting a transaction deletes its order (`onDelete`), and inserting an
order again needs its transaction (foreign key). `Fail` stands for a database or provider
error and for an instance that stops: requests are lost, a round of the cron is left to
the next.

### Wallet

One user's wallet, both ledgers in one set, each call with the entity it read. `topUp` and
`exchange` read with `UserProfile.findOne`, outside of the transaction they open, and write
in it: what they write is one `Commit`. `savePoints` and `exchangeVipVideo` write ledger and
wallet apart. `MigrateFind`, `MigrateSum` and `MigrateUpdate` are `onModuleInit` for this
wallet. `version` and `stale` remember whether a call wrote after another one wrote what it
had read.

### KvStore

One key: `rows` are the rows of `KeyValuePair` with that collection and key (nothing makes
them unique), `model` the row of `KeyValueModel`, `call` the calls of `KvService` on any
instance, `cache` two layers (values, and the results of `KvHelper.find`) in two kinds of
places (Redis, the memory of an instance). `Start` is the look-up of `set`, which the
administrator's `Set`, an instance that starts (`Initialise`) and a destroyed key (`Again`)
share; `Model`, `Link`, `Diff`, `Insert`, `Update`, `Commit` and `Clear` follow. `Update` is
the UPDATE with its event `AfterUpdate`, which clears the cache while the transaction of
`save` is open and the row still the old one for everybody else; `Commit` shows the new one.
Only `set` clears again after it (`final`), so between the two a reader may put the old row
back, and after `KvService.update` or the merge of an initialiser it stays there until it
expires or is refreshed (`Overdue`, one of the reasons for `slip`). A reader has three
threads: the one that reads (`Lookup`) and the two that cache-first starts behind its back
for either layer; they go through `Find`, `Rows`, `Keep` and `Store`. A reader waits rather
than have two refreshes of one layer on their way. Redis drops values at will and may lose
its connection; a clear issued meanwhile fails or is delivered later. Values are a form,
brought along by initialisers, and data, put in by administrators; `Off` stands for values
JavaScript takes for false. Collections are taken to have a dot in their names, as all in
the repository have: otherwise the event `AfterUpdate` clears a key nobody reads. `preload`
is a `Lookup` whose value was found beforehand, and not an action of its own.

### RedisLock, Startup, Scheduler, WxToken

`RedisLock` is a lock with an owner and a time left (in milliseconds, as the code passes
it): it is free when the time is up, and only its owner's release has an effect. A user of
the lock advances it with its own `Tick`, in its own unit.

`Startup` follows `bootstrap`, `AppLifecycle` and `syncDb`: `Preload`, then `TakeLock` (an
instance waits) or `SyncAlone` (no Redis), `LookTables`, `Rename`, `Synchronize`,
`CheckVersion`, `Migrate`, `UpdateVersion`, `Unlock`, `OnInit`, `Listen`. `RenameFails` is
the rename of a table another instance has renamed since it was seen; it ends the process.
`Stop` is any error and any signal, at any point: `process.exit` runs no clean-up. One table
stands for all renamed ones, one version for all migrations.

`Scheduler` is one cron: `OnTick` starts a round whether or not an earlier one is at work,
`Work` and `PassOver` ask for the lock, `Succeed` and `Fail` end the handler, `Report` and
`Save` count. What the lock answers to the loser is an object, so a round that was passed
over counts as a success; the error of a handler is caught and logged inside, so no failure
is ever counted (`addCronFailureEvent` is never reached by it). Without Redis the statistics
go through `cacheable`, which keeps what is there: the counter stays at one. The statistics
run out (`Expire`), in Redis 24 hours after they were saved last, in memory after an hour or
when 500 other entries came, and with their instance; counting then starts again. Reading
asks whether Redis is enabled (`Kept`), saving whether its client is open (`Saved`): what is
saved while it is not goes to the memory of the instance, where nobody reads it.

`WxToken` is `getAccessToken`: `Look`, `TakeLock`, `Refuse`, `Issue`, `Keep`, `Expire`. The
lock lasts 60 milliseconds, which the code means as seconds: a fetch that is slower loses
it. `stored` has one place with Redis, and one per instance without, where no lock is asked
for: an instance then goes on answering its own token after another one made WeChat end it,
which is what `StoredIsNewest` says of the other places.

### Upload, Assembly

`Upload` has clients with a plan (key, file name, number of chunks, number of the first one:
the stream endpoint counts from zero, the form endpoint from one), the tokens by key, the
folder of chunks under each name, the merged file on its way and in place. `CreateTask`
uses a token that is there as it is; `BeginChunk` is the guard that loads the token,
`Store`, `SaveDiff`, `SaveWrite` the rest of a chunk; `BeginMerge`, `ListChunks`,
`WriteMerged`, `StoreMerged` a merge and `RefuseMerge`, `NoChunks`, `NothingToMove` its
errors. `Break` is any failure in between. The clients send all chunks at once, and one by
one once they were refused: this is the environment, and the weakest one with which an
upload ends at all. Two chunks whose tokens were loaded before either was saved lose a bit;
`overlap` remembers that.

`Assembly` is what an upload promises; `Upload` implements it (`IsAssembly`) for every
session that shares neither key nor name with another one: `arrived` is the folder, `whole`
the files in place. With a shared name the folder holds somebody else's chunks, which a
merge takes; nobody ever empties it.

### WeChat

`follows` is what WeChat knows, `inbox` the messages under way, in no order. `HandleEvent`
and the cron's `SyncAdminUsers` begin the same synchronisation: `GetUserInfo`, `FindUser`,
`UpdateUser` or `InsertUser`, `ReloadUser`, then `InsertAdmin` and `LinkAdmin`, or
`UpdateAdmin`; `Collide` is a unique constraint. `synced` remembers who was synchronised
with nothing in between. A request that breaks off between the administrator and his link
leaves one that collides with every later synchronisation of the user, for ever: `broken`
in `AdminFollowsUser` is that case.

### Tenancy

`Register`, `Info`, `Find`, `Create` and `Link` are `registerTenant` (which looks twice),
`CreateStaff` and `Employ` the endpoint with which an administrator of a tenant makes
further users of it, `SaveRecord`, `CheckPermission`, `CheckResourceLimit` and `Insert` what
`RestService.save` does for users with a tenant (`content/content.admin-controller.ts:70`),
`AdminSave` what it does for those without, `CronDue` and `Populate` the population. Rows
are counted, not told apart: nothing the properties say depends on which one it is. Five
things are as the code has them, not as it reads.

* `registerTenant` succeeds only when an application calls the service for one of its users:
  the endpoint of the repository (`tenant/mgmt.controller.ts:39`) calls it for an
  administrator, looks for him among the users of organisations, finds none and throws
  (`tenant/tenant.service.ts:180`). `Register` is the call of the service.
* A registration saves no record of the first model: the handler it calls for that was
  registered without its object (`core/rest/rest.module.ts:22`), so it throws after the
  tenant was made and linked.
* The administrators' endpoint (`rest/base.controllers.ts:231`) has no tenant in its
  requests, so nothing is checked there.
* `count({ tenant })` ignores a bare column in TypeORM 0.3, so a limit counts the records of
  all tenants. A second tenant may be refused its one record of the bound model, against
  what the comments at `tenant/tenant.service.ts:39`, `tenant/tenant.module.ts:97` and
  `core/rest/rest.service.ts:81` mean. `LimitNearlyKept` says that no tenant has too many
  records; that each can have its own is false of the code and no property claims it.
* The populate crons throw in their first statement, since their methods are registered
  without their object (the finding of `tenant_populate`).

Left out is the tenant that `registerTenant` gives to the WeChat user of the one who
registers (`tenant/tenant.service.ts:196-203`): nothing here reads it.

### SysAdmin, SignUp

`SysAdmin` is `initSysAccount` on every instance: `FindRole`, `SaveRole`, `CountUsers`,
`DeleteConfigured`, `DeleteDefault`, `GetUser`, `Diff`, `Write`. Name and address are unique
and the only name is the administrator's, so there is one row. `SignUp` is `verify` and
`signUp` (with `createUser` and `createProfile`) for one address: the code is mailed before
it is stored, and the token that is there keeps its code, so that only the first mail of a
quarter of an hour is good; after a failed insert of the user it is mailed in vain. The
verify token itself is `OperationToken`'s; here it is its find-or-create alone.

### Friends

`rel` has the rows of `UserRelation`, one for each direction between two users, or more,
since nothing makes them unique. `Ask`, `Accept`, `Ignore`, `Block` and `Unblock` are the
endpoints with the row they find; `DiffNone`, `Diff` and `Write` are `save`, `Insert` a new
row. Only `accept` opens a transaction: its rows are in `wrote` until `Commit`, and until
then others wait for them (`Locked`); `FindReverse` reads the other direction outside of it,
and a block there rolls back what was written. `Deadlock` is the database that ends one of
two transactions that wait for each other. The endpoints do not look at a row's type, so
that the one who is asked may accept a row that was blocked, and the one who asks may
unblock a row that was only requested, which makes him accepted in one direction
(`unblocked` in `FriendsBothWays`).

### Loader

One row, what Redis and the memory of each instance have of it. `Begin`, `Get`, `Find` and
`Set` are a load, which with Redis leaves its promise in memory for others to join;
`Update`, `Commit` or `Rollback`, `Delete` and `ClearLocal` are a save, whose event comes
before the commit. `UpdateByQuery` raises no event that names the row. What is published for
other instances has no action: the channel has no subscriber, which is the finding of
`loader_peers`. Inserts and removals change which rows there are and not what a copy says;
they are left out, and so are failures of Redis commands.

## 3. Runs

| run | what it checks | bounds |
|---|---|---|
| `token_consume` | `TypeOK`, `CountsConserved`, `NoReuseAfterGrant`, `NoUseAfterExpiry` | 3 requests (the third is what sees a stale save undone), one scope, three offers, 4 rows, clock 0..1 |
| `token_login` | `LoginsLeaveAToken`, `DeprecationIsFinal`, `LoneLoginRevokesOthers` | 3 log-ins or refreshes of 2 users |
| `token_unique` | violated: `OneUsablePerKey` | 2 requests |
| `token_one_time` | violated: `OneTimeUsedOnce` | 2 requests |
| `payment_settle` | `FulfilledIsRecorded`, `NoLateFulfilment`, `SettledOnWord`, `DoneMeansPaid`, `PaidIsFinal` | 1 order of every method, 4 requests, 1 cron, 1 failure |
| `wallet` | `TypeOK`, `ColumnsAccounted`, `NeverOverdrawn`, `LedgersAddUp` | 3 calls, 2 amounts, 2 videos, 3 wallets to start with, 1 failure |
| `kv_data` | `TypeOK`, `DataSurvive` | 3 calls, two forms, one datum and `Off`, every kind of initialiser, 1 failure |
| `kv_readers` | `ClearedInTime`, `ReadersCatchUp` (liveness) | 2 calls, 1 reader, 1 lost connection; with Redis and both layers only calls that initialise and update, and no lost connection |
| `progress` | `TypeOK`, `SyncOneByOne`, `UpIsMigrated`, `NothingForgotten`, the refinement `IsAssembly`, and the liveness of `EveryoneComesUp`, `EventuallyMerged` and `PaidEndsDone` | 2 instances, 2 stops, synchronisations of up to 2 or 4 minutes (the lock lasts 3); 2 uploads with 2 chunks that share nothing, a key or a name, 2 requests, 1 failure, 1 merge asked for too early; 1 WeChat order, 3 requests, 1 cron, 1 failure |
| `agreement` | `TypeOK`, `OverlapOnlyWhenLate`, `CountsAddUp`, `StoredIsNewest`, `AdminFollowsUser`, `TenantsHaveUsers`, `LimitNearlyKept`, `AdminInTheEnd`, `ProfilesHaveUsers`, `FirstCodeCounts`, `FriendsBothWays`, `OwnWritesSeen` | per part 2 or 3 instances, rounds, callers or requests and 1 failure; 3 rounds, 3 access tokens, 3 follows or unfollows, 2 tenants, 1 record without a check, 3 mails, 2 relations, 2 loads and 1 save of a row that changes twice; every configuration: locks that outlast the work and locks that do not, with and without Redis; a bound model with one user and the staff he makes, and none with two users; requests are interchangeable (`SYMMETRY`) |
| `tenant_populate` | violated: `StraysFindTheirTenant` | 1 tenant, 1 record |
| `loader_peers` | violated: `PeersCatchUp` | 2 instances, 1 load, 1 save at a time |

Why the bounds are enough: the races are between two calls that write and one that looks,
so three calls show them; orders, users and tokens do not share rows with each other, so one
order and two scopes suffice; counts up to 2 distinguish "one left" from "none left"; one
tick separates before from after an expiry. `SYMMETRY` permutes requests, which are
interchangeable, and is used in no run with a liveness property.

In `progress` and `agreement` two actors show every race of two, and the third one in
`Scheduler`, `WxToken`, `SysAdmin` and `SignUp` is what comes after it; ages go past the
lock's ttl by one step, which is when it matters. `CHECK_DEADLOCK FALSE` is said where the
bounds (`Max...`) or the end of all requests let the system stop.

The four violated runs are the findings. `obtainToken` and `consumeToken` promise more in
their comments than unlocked round trips can keep, the crons that are to give records their
tenant never do, and instances never hear of each other's changes. What does hold of tokens,
and is checked, is weaker: counts never get out of step (each save writes both columns or
neither), and a token that was spent before it was read is useless, whatever stale saves do
to its flags. The last one holds where no log-in or refresh marks the tokens of its scope
(`NoReuseAfterGrant` says which, and `token_consume` has none): where one does, five
requests suffice: a consumer that loaded the marked token writes the count back over a use,
and another one takes the mark back. `tenant_populate` assumes that the crons have their
rounds and that requests get on, `loader_peers` that loads and saves get on and that what is
kept for a time gets too old.

Other things the model shows and no property hides: one order whose status query always
rejects starves the orders behind it in every round (`PaidEndsDone` assumes finitely many
failures); an Alipay order whose call breaks off between its two saves is never done, since
the repeated notification finds the transaction done; overlapping exchanges of one video
charge twice; a top-up of a wallet that was not migrated yet is lost to the migration; an
initialiser registered with `noUpdate` puts its own value over `false` or `0`, since it
tests the value found for truth (`DataSurvive` excludes data that count as false);
destroying a key clears no cache. Each exception in a property of the second half is a real
behaviour, too: without `crossed`, `raced`, `overlap`, `lost`, `broken`, `unblocked` or
`touched` TLC finds the property violated. Where such an exception is exactly a hazard, the
code goes wrong there and the property says that it goes wrong nowhere else: "hazards" in
`PROJECT.json` names no property for it, or says in its note what the one it names covers.
These are a second upload under the key of the first (`Alone`), two rows of one key and a
merge over what was not read (`DataSurvive`), reports of failed and passed-over rounds, a
load that overlaps a save (`raced`), an administrator left without his link (`broken`), a
profile without its user (`broken`) and a top-up before the migration (`counted`).

**Fairness** is used in `kv_readers`, `progress`, `tenant_populate` and `loader_peers`. For
payments, `WF(Step(w))`: Node resumes a call when its round trip ends, and drivers end round
trips. `WF(CronBegin(c))`: node-cron fires every five minutes. Requests, notifications,
payments, failures and the clean-up are not fair: none of them has to happen. In
`kv_readers`, `WF(Lookup(r))` and `WF(ThreadStep(r, k))` say that settings are read again
and again and that round trips end, `WF(Expire(l, i))` that what an instance keeps in memory
gets too old, since a hit does not prolong it. There is none for Redis, where each refresh
does, nor for calls: a stuck one changes nothing any more. In `progress`, `WF(Tick)` says
that time passes and locks run out, `WF(Advance(i))` that a process goes on and that whoever
runs the server starts it again, `WF(Handle(q))` that requests get on, `WF(Send(s))` that a
client goes on until it has its file; stops, failures and hasty merges are not fair.

## 4. Proofs

TLAPS proves every safety property that the passing runs check, and the refinement of
`Assembly`, for every value of the constants that satisfies their assumptions: any number of
requests, instances, tokens, users and amounts, and any bounds. "theorems" in `PROJECT.json`
lists the results; the lemmas they rest on are in the same modules. All proofs have one
pattern: the invariant holds initially, every action keeps it, and it implies the property;
in the modules of many actions a lemma says what the step of one actor may do to the others
(`CallStep`, `FriendStep`, `CallEffect`, ...), so that an
action is about its own actor only.

**Tokens** (`OperationTokenProofs`).
* `TypeCorrect`: `TypeOK` is inductive; beyond types it says that a request about to load,
  check or save holds a token whose row exists.
* `CountsAreConserved`: not inductive by itself, since a save writes an old entity over a
  newer row. `CountsInv` adds that every entity in memory accounts for its uses too, and
  that a write about to happen has both counters among its dirty columns or neither: `left`
  and `used` determine each other, so one cannot differ from the row without the other.
* `NeverUsedLate`: `UseInv` relates what `checkAvailable` answered to the expiry of the
  entity, which nothing changes, and not to its flag, which stale saves do change.
* `SecondUseRefused`: `OnceInv`; where no `deprecateToken` marks the token, nobody saves an
  entity that has its use left, so a use once written stays written.
* `DeprecatedForGood`, `LoneLoginRevokes`, `LoginsLeaveOne` assume that `consume` is not in
  `Flow`, as in this repository, which never calls `consumeToken` itself. An entity about to
  be saved is then deprecated (`RetiringInv`); rivals for a scope know of each other
  (`LoneInv`); and for every scope there is a token that is alive, or a request that has one
  or will get one after everybody's `deprecateToken` (`LoginInv`: `Alive`, `Hope`).

**Payments** (`PaymentProofs`). One invariant is behind the six theorems, of which
`PaymentIsFinal` is about steps. The invariant has three parts: what one call knows of its
order (`InOrder`, `Callback`, `Settler`, `Settlement`, `Updater`, `Latecomer`), how the two
rows go together (`Rows`), and what calls owe each other: everybody keeps what was recorded
(`Kept`), nobody disturbs the request that is creating its order (`Undisturbed`, `Spares`).
A step is proved against the first two, and the others' view of it against the third.
`DoneMeansPaid` needs that a third-party transaction that is done, or that somebody saw
done, has an order that is paid or is about to be (`PaidInTheEnd`). `SettledAsTold` does not
say that a settled order was paid, only that somebody said so and that its transaction is
there.

**Wallet** (`WalletProofs`). `ColumnsAccounted` and `NeverOverdrawn` hold of the entities in
memory as well, which is what makes them inductive. For `LedgersAddUp`, the columns are the
sums of those rows of the ledgers whose change has reached the wallet (`SettledAddUp`), and
a column whose version has not changed since a call read it is as in its entity
(`Snapshot`). The sums are folds over sets, which the library defines by recursion; that
they exist and do not depend on the order is proved from well-foundedness of the subsets of
a finite set (a minimal counterexample), since the induction theorems take operators.

**Key-value store** (`KvStoreProofs`). `DataAreKept`: an initialiser about to save has read
the data that are there, unless there was a choice of rows or an administrator wrote since
(`SurviveInv`). `CachesAreCleared`: a cache that every write clears holds one of the rows or
somebody is about to clear it, as long as nothing slipped, and it is empty while a write is
between its only clear and its commit (`ClearInv`).

**Starts and uploads** (`ProgressProofs`). `OneSynchronises`: whoever synchronises holds the
lock with exactly the time left that he has not used, or has been at it for as long as the
lock lasts (`Syncs`). `MigratedBeforeUp`: what an instance saw of the tables when it looked
says too little, never too much (`SchemaAt`). `AnsweredCounts`: the parts of a session that
shares nothing are the chunks it sent, a merge that has begun found all of them (`PartsOk`),
and while chunks are saved one at a time none works on an old body (`SavedOk`).
`UploadsAssemble` is the refinement, step by step: `Store` of such a session is `Arrive`,
`StoreMerged` is `Assemble`, and everything else stutters. `Assembly` says which parts a
file is made of; `FilesAreWhole` says what is in it: the session's own chunks, each one once
and by number, and the file is there once the client was told so (`OwnFile`, which only this
theorem states). Its invariant (`OnTheWay`) adds the folder, the file on its way and what a
merge has listed; that as many numbers as there are chunks, in ascending order, are the
numbers of the chunks is `ClimbsByOne`. `PartsAreTyped` is `TypeOK`. Its hard part is that a
merged file is a sequence of chunks of sessions: `Ordered` is a CHOOSE, so there must be
such a sequence for every finite set of numbers, which a smallest set without one refutes
(`AscendingExists`), and the chunks a merge has listed must still be there when it writes
(`ReqTyped`). The bounds of the start are `StartBounds`. For the payments it takes over what
`PaymentProofs` proves, through an INSTANCE with this specification's variables (`PP`).

**Locks** (`LockProofs`). The same argument about `RedisLock` as for the start, for rounds
of a cron (`JobInv`) and fetches of the access token (`TokenInv`): a holder who is not late
owns the lock, so a second holder means a late one. `ReportsAreCounted` adds that a counter
nobody else is at is the number of reports since it began (`Counts`): a round that has read
it saves the next number unless another one, or an expiry, came between. `NewestIsStored`:
the place the newest token was issued for has it, or is about to get it from the only fetch
for that place, or lost it (`OneFetch`), and no other place has it (`StoredOk`).
`JobsAreTyped` and `TokenIsTyped` are their types; the first one needs a count: what was
reported and the rounds that are not over are together at most the rounds that were begun
(`JobBounds`).

**Accounts** (`AccountProofs`). `AdministratorInTheEnd`: there is a system administrator, or
an instance that is yet to make one (`Responsible`): who deletes the account goes on to
create it. `ProfilesGetUsers`, `FirstMailedCounts`: what holds of each visit and of each
address (`SignInv`); the bound on the mails counts the visits that are going to mail.
`FriendsAreMutual`: once a relation is accepted it is settled for good, it stays accepted or
somebody ignored or blocked it (`Settled`); past each of its two rows, `accept` has found it
settled or will settle it by its commit (`Granted`). Who is waiting for whose lock plays no
part: a transaction that is ended leaves nothing behind. Their types are `SystemIsTyped`,
`AccountsAreTyped` and `FriendsAreTyped`.

**Services** (`ServiceProofs`). `OwnWritesAreSeen`: an instance that saves has no copy of
its own, and Redis has none unless it is yet to be deleted (`LoadInv`). `TenantsGetUsers`:
tenants are numbered as they are made, by users who are no one's staff (`Numbered`,
`OwnerOk`); who registers once at a time has none while he makes one (`UserOk`); and who
makes staff has registered the tenant he makes them for, and has it unless he registers
another one (`AskOk`). `LimitIsNearlyKept`: the records of a tenant, and the requests that
have counted and are about to insert one of his, are fewer than limit and requests together
(`Bounded`); that the count is of all tenants only makes it larger. `AdminsFollow`: a
synchronisation nothing interfered with knows what WeChat knows, and those that have begun
since the last one write the same again (`AdminInv`). `AgreementIsTyped` is `TypeOK` of the
composed specification, from the types of its eight parts; the module extends `LockProofs`
and `AccountProofs`, which have five of them. Two of the others are more than types. The
version of the row stays in its range because one save is yet to be committed at a time
(`LoadBounds`). A tenant's stray records are bounded because those of all tenants are, and
one of several numbers is at most their sum (`Summand`).

**Assumptions.** The `ASSUME`s of the modules say that sets contain what the code can put
into them and are not empty where a call needs an element, that bounds are natural numbers,
that names like `"none"` and `"redis"` are not those of actors, and, where a sum or a count
is over the requests, that these are finitely many. Three say more. A `Wallet` starts with
figures that are not negative, as new rows do, and without a row with none. `Tenancy` has at
least one request: with none and a limit of zero, `LimitNearlyKept` (fewer than limit plus
requests) is false. `SysAdmin` has at least one instance: with none, all are through and
nobody has made the administrator. TLC evaluates all of them on the instances of the runs.

The proofs found two things that the runs had not: `NoReuseAfterGrant` needs its exception
for scopes that log in (section 3), and `ClearedInTime` did not need a guard it had.

**Only model-checked** are `PaidEndsDone`, `ReadersCatchUp`, `EveryoneComesUp` and
`EventuallyMerged`: liveness under fairness, which the proof system cannot do. The four
findings are counterexamples, and nothing is to be proved of them.

## 5. Not modelled

"components" in `PROJECT.json` names what is left out of each part. In short:

* log-in of administrators, `quickPass`, resetting a password: they read, compare hashes and
  issue tokens, which `OperationToken` has; no state of their own.
* mini-program users of WeChat and Sign in with Apple: each is the find-or-create of
  `SignUp` or `WeChat` with another column.
* SMS codes, `mergeConstantMaps` and the default pairs of the key-value store, the
  connection of the message queue, devices and their session users, drafts, the sequence
  generator: small parts with hazards of their own, the next ones of the plan.
* services without state of their own (REST, GraphQL, content, search, import and export),
  pure I/O (storage engines, email, provider clients), configuration, tracing, and thin
  bindings of client libraries: nothing a step-by-step model would tell apart.

## 6. Plan

1. Devices, sessions and session users (`client/helper.ts`), found and then inserted.
2. The connection of the message queue and its chains of retries; drafts and their publication.
3. SMS codes, merged constants.
4. Pure functions: paging and identifiers against reference definitions.

Every safety property of a passing run has its theorem. Worth proving next: the step
conditions behind the liveness properties (that a round of the cron settles the order it
asks about, that a refused chunk is sent again), which are safety, and whatever the modules
of the plan bring along.
