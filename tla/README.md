# A verification project for Eventer-API

Eventer-API is a NestJS service that sells tickets for events: lots of tickets
with a stock, orders paid through Stripe, tickets with a QR code that are mailed
to their buyers and validated at the gate. This directory holds TLA+ models of
the parts where its operations meet each other, the TLC configurations that
check them, and TLAPS proofs of what matters most. Paths below are relative to
the repository (`src/` is its source directory).

## 1. Inventory

### Who acts

The API is one Node process (it may restart). Every `await` hands control to
whatever else is ready, so two HTTP requests, a cron run and the queue workers
interleave statement by statement. PostgreSQL runs at READ COMMITTED; a
transaction makes its statements atomic for the others, a read outside it is
stale as soon as it returns. Redis keeps the BullMQ queues, the cache and the
sessions. Stripe and the mail service are external.

### Components, their state and their operations

| component | state | operations | modelled in |
|---|---|---|---|
| Checkout, `src/modules/orders/use-cases/create-order.usecase.ts` | `orders` rows, `ticket_types.available_quantity`, Stripe session | check stock; reserve (one transaction); open session; save session id; compensate | `Orders` |
| Webhook, `src/modules/orders/controller/orders.controller.ts` | jobs in Redis | verify, queue a job | `Orders` |
| Worker, `src/modules/orders/queue`, `complete-order.usecase.ts` | job states, order status, `tickets` rows | find, mark PAID, emit tickets, queue mails, retry | `Orders` |
| Expiration, `src/services/order-expiration.service.ts`, `orders/cron` | order status, stock | every five minutes: load up to 50 old PENDING orders, expire each in a guarded transaction | `Orders` |
| Order administration, `update-order.usecase.ts`, `delete-order.usecase.ts` | order row, deletion mark, stock | PATCH of status, quantity and lot (read, decide, save), soft DELETE | `OrdersAdmin` |
| Ticket lots, `src/modules/ticket-types` | `total_quantity`, `available_quantity`, deletion mark | create, resize under a row lock, soft delete | `Lots` |
| Tickets, `src/modules/tickets` | ticket status and lot, stock | issue, validate, PATCH, cancel | `Tickets`, `TicketLocks` |
| Mail queue, `src/modules/tickets/queue` | mail jobs | queue, send, retry three times | `MailQueue` |
| Event cache, `src/infra/redis/services/cache.service.ts`, `src/modules/events` | `events` rows, entries with a TTL | cached reads; create, PATCH, delete, each with its invalidations | `EventCatalog` |
| Cache of lots, `find-ticket-type`, `list-ticket-types` | entries with a TTL | two cached reads; the writes of lots, each with its invalidations; sales, which have none | `LotCatalog` |
| Sessions, `src/infra/redis/services/session.service.ts`, `src/modules/auth`, `jwt-auth.guard.ts` | a token key and a user key per session | log in, authenticate (renews), log out | `Sessions` |
| Users, `src/modules/users` | `users` rows, a partial unique index on the e-mail | register, PATCH (read, hash, save), soft delete, list in pages | `Users`, `UserPages`; the deletion also in `Sessions` and `MailQueue` |
| Migrations and seed, `src/infra/database` | the schema, `migrations_history`, rows | run what is pending, revert the last, truncate and fill | `Migrations` |
| Order queries, roles guard, slug, uploads, mail rendering, error filter, logging, API documents, configuration, health | none that survives | reads, pure functions, I/O, wording, wiring | not modelled, see section 6 |

### How they interact

    POST /orders --> CreateOrder --> stock, order row --> Stripe session
                                                             | paid
    Stripe --> POST /orders/webhook --> orders-queue --> CompleteOrder
                                                          |-> order PAID
                                                          |-> CreateTicket -> tickets, mail-queue
    cron --> OrderExpiration --> order EXPIRED, stock
    PATCH/DELETE /orders, /ticket-types, /tickets --> the same rows

All of them meet in two places: the `status` of an order and the
`available_quantity` of a lot. What is hard is that nearly every operation reads
a row, decides, and writes it in a later statement, by its id alone:

* the worker reads PENDING and writes PAID; the sweep and a PATCH write in between;
* the compensation is two statements, each of which can fail;
* a retry starts at the beginning and finds what its first attempt left;
* webhooks come late and twice; the process restarts between any two awaits;
* a save compares the entity with the row as it is by then, and puts back what
  another request has changed since the entity was read;
* two transactions that update the same two lots may wait for each other;
* what follows a commit (e-mail jobs, cache entries, the second key of a session)
  is done by further calls, each of which may fail, come late or meet another's.

The full list, each hazard at its line with the properties that watch it, is
under `hazards` in `PROJECT.json`.

### What makes each component correct

* Stock: free and held seats are exactly the lot; never fewer (`StockNotLost`,
  `SoldIsHeld`, `LedgerExact`, `NoSeatLost`), and never sold twice (`NeverOversold`).
* Orders: a payment is final, reservations end, a paid order gets its tickets once.
* Queue: each job is settled; completed means done.
* Lots: a resize never goes below what is sold; a lot with sold seats is not
  deleted, unless they were sold behind the deletion's back.
* Tickets: whoever is let in has a valid ticket; a seat is given back once; every
  request is answered, deadlocks included.
* E-mails: bounded in number, never claimed without having been sent.
* Caches: an entry out of date has one of a few known reasons.
* Sessions: one fresh session per user; what has ended stays ended.
* Users: an e-mail leads to one account; paging through them misses few.
* Migrations: run in any batches and reverted at will, they end at the schema the
  entities declare.

## 2. Modules

| module | what it is | extends |
|---|---|---|
| `Seats` | `Units(S, q)`: how many seats a set of buyers holds. The size of a set with one element per seat, so that no recursion is needed and its laws can be proved | |
| `OrderSale` | abstract: what the checkout promises for one order | |
| `Orders` | the checkout pipeline around one lot | `Seats` |
| `OrdersAdmin` | the pipeline together with PATCH and DELETE of orders | `Orders` |
| `LotLedger` | abstract: what the two stock columns promise | |
| `Lots` | one lot, its buyers, editors, deleters and its row lock | `Seats` |
| `LotCatalog` | the lot of `Lots` with a cache entry that shows it | `Lots` |
| `Tickets` | tickets after the sale, any lots, overlapping requests, one step per request | `Seats` |
| `TicketLocks` | the same requests statement by statement, with row locks and deadlocks; implements `Tickets` | `Tickets` |
| `MailQueue` | from the rows of a ticket batch to its e-mails | |
| `Sessions` | logins, logouts, the guard, two Redis keys and the clock | |
| `EventCatalog` | event rows, their cache entries, readers and writers | |
| `Users` | accounts, their index and the requests about them | |
| `UserPages` | `Users` and somebody who walks through GET /users | `Users` |
| `Migrations` | the schema, nine migrations, releases, rows and the seeder | |
| `MC...` | the constants of the runs | |
| `SeatsProofs` | the laws of `Units` | `Seats` |
| `OrdersProofs` | theorems of `Orders` and of `OrdersAdmin` | `OrdersAdmin`, `SeatsProofs` |
| `LotsProofs` | theorems of `Lots` and of `LotCatalog` | `LotCatalog`, `SeatsProofs` |
| `TicketsProofs` | theorems of `Tickets` and of `TicketLocks` | `TicketLocks`, `SeatsProofs` |
| `UsersProofs` | theorems of `Users` and of `UserPages` | `UserPages` |
| `MailQueueProofs`, `SessionsProofs`, `EventCatalogProofs` | theorems of the module each is named after | that module |

Definitions marked `(bug)` belong to no specification. Each is the definition
below it with a plausible mistake, and `mutants` in `PROJECT.json` names the
property that catches it.

### Orders

One action is one awaited statement or one transaction. A request names its
order, as each request inserts at most one row.

| code | actions |
|---|---|
| `CreateOrderUseCase.execute` | `CheckStock`, then `Reserve` or `ReserveRefused` (the transaction of `decrementStock` and `createOrder`), `OpenSession`, `SaveSession`; `HandlerFails` is the exception at any of these awaits, `ReturnStock` and `MarkFailed` are the two statements of the catch block |
| Stripe, `handleIncomingEvents` | `Pay`, `DeliverWebhook` (each delivery makes a job of its own: `ordersQueue.add` passes no `jobId`) |
| BullMQ, `OrdersProcessor` | `TakeJob`, `JobFails` (retry while attempts are left), `FinishJob` |
| `CompleteOrderUseCase.execute` | `FindOrder` (ignore unless PENDING), `MarkPaid`, `EmitTickets` (one transaction inserts all tickets) |
| `OrderExpirationService.execute` | `ScanPending`, then `ExpireOrder` or `ExpireFails` per order |
| restart | `Crash`: what lives in memory is gone, a stalled job is put back once |
| time | `Age`: an order is more than a minute old |

State: `status` is the status column, `avail` the stock column, `req` where a
handler stands, `session` the Stripe session, `job` the jobs in Redis, `worker`
and `step` the single worker, `tickets` the ticket rows, `batch` what a sweep
has loaded. Prices, users, the text of answers and the e-mails are left out.
`batch[s] = {}` is also the sweep's idle state; a sweep that finds nothing
changes nothing.

Inside the emission the lot is read once more and a missing lot is an
exception; it is one of the causes of `JobFails` at `step = "emit"`.

### OrdersAdmin

`ReadForPatch` is `findById` with the two early checks and the assignment of the
body to the entity. TypeORM's `save` loads the row again (`ComparePatch`, its
SELECT) and then writes the columns in which the entity differed from what it
found (`WritePatch`, its UPDATE and the commit, with `incrementStock` in the same
transaction when seats go back). The row may change between any two of the three,
so a stale entity restores its status, its quantity, its lot and the empty
deletion mark it was loaded with, in all columns or in some (`Saved`).

The body may carry a quantity and a lot, which are assigned to the row; no seat
is taken or given back for them. `quantity` and `lot` are the two columns,
`amount[o]` is what they claim of the lot that is followed: the quantity, or 0
when the row names another lot. What the pipeline does with an
order goes by the amount it read: the sweep's (`loaded`, `ExpireLoaded`), the
worker's (`carried`, `EmitCarried`). `shrunk` is a history variable: the seats
that PATCHes took off rows that held them, which nobody returns.

`DeleteOrder` is the soft delete; `FindVisibleOrder` and `ScanVisible` replace
the two queries of the pipeline that no longer see such a row. All other steps
of `Orders` address the row by its id and are taken over unchanged (`BlindStep`).

### Lots

Buyers stand for orders; what happens to an order between taking and giving back
its seats is `Orders`' subject. `LockLot` is the `SELECT ... FOR UPDATE`, and
`SaveLot` writes both columns from what was read, so the lock is what keeps the
sales of others. Relative updates (`TakeSeats`, `GiveSeats`) and the soft delete
wait for the lock; plain reads (`CheckLot`, `ReadForDelete`) do not. The cache
invalidations after the commit belong to `LotCatalog`.

### LotCatalog

It adds to `Lots` one of the two keys that show the lot, its page or its own
entry, and everybody who touches it: readers (`LookUp`, `Load`, `Fill`, three
awaits, the last of which stores what the second has read), the commands that
POST, PATCH and DELETE send after their write (`drop`: a DEL, and a KEYS followed
by a DEL of what it found), their failures and the end of the TTL. `Sale` is a
step of a buyer, which empties nothing. `moved`, `excused` and `late` are history
variables: an entry aged by a sale, one known to be out of date for a reason that
is past, and the buyers who took seats while a deletion was between its check
and its end, or after it. `SameLot` compares two answers except for the seats on
sale.

### Tickets

A client sends requests one after another. `ReadTicket` is the query and the
checks the code makes on it; `AdmitTicket`, `CancelTicket` and `PatchTicket`
are the writes, each one step. The arithmetic of a PATCH is spelled out in
`Cancels`, `Frees`, `TakesOld` and `TakesNew`, one definition per UPDATE of
`UpdateTicketUseCase`. A save loads the row again and writes the columns that
differ from the entity: for a request that nothing overtook these are the ones
it changed, for an overtaken one each column may end with its own old value or
with the other's (`Column`). `lapses` is a history variable, the statuses that
overtaken requests had read when they wrote; `issued` counts the tickets of
POST /tickets, which take no seat. `Refuse` collects the causes that leave
nothing behind: an event that has not begun, a new lot that is gone or of another
event, a failing call. The owner, which a PATCH sets to its caller, and the
price are no part of the state; that a save may write only them is in
`TicketLocks`.

### TicketLocks

The same requests one statement at a time: `Read`, one `UpdateStock` (or `NoSeat`,
when its guard finds no row) per stock update of `Statements`, `Compare` and
`LockTicket` (the SELECT and the UPDATE of the save), `Commit`. An UPDATE waits
while another transaction holds the row (`Free`), locks are kept until `End`,
and what a transaction has changed (`taken`) nobody else sees before the commit.
A save whose entity differs in no column sends no UPDATE and takes no lock: of
the columns, status and lot are compared (`Differs`), and `others` says whether
the owner or the price differed, which any PATCH or overtaken save may find.
A validation has no transaction but the save's own, a deletion reads before its
transaction begins and sets the status without comparing. `DeadlockFound` is
Postgres aborting a transaction that waits for itself through others
(`Deadlocked`, the transitive closure of the waits-for relation), which the
catch block turns into an answer. `ImplementsTickets` says that all of this is
`Tickets` with one step per request, the commit.

### MailQueue

It refines one step of `Orders`: `EmitTickets` and `FinishJob` are a call of
`CreateTicketUseCase`, here with the loop that follows its commit. `SaveTickets`
is the transaction, `QueueMail` and `QueueFails` the two outcomes of one `add`,
which `DispatchTicketEmailUseCase` never reports to the loop. An `add` whose
answer is lost although the job is there is `QueueMail`. The worker's awaits are
`FindTicket`, `SendMail` and `FinishMail`; `MailFails` is the exception at any
of them, the last of which stands for an answer that is lost after the service
took the e-mail. `findByIdWithRelations` leaves soft-deleted relations out: a
deleted user completes the job, a deleted event or lot makes the title
unreadable (`MailBroken`). `unqueued` is a history variable.

### Sessions

A login is `ValidateUser` (Passport's local strategy), `ReadIndex` and
`DropPrevious` (the two commands of `invalidatePreviousSession`), `SignJwt` and
`FinishLogin` (`createSession`, a MULTI). A logout is `AcceptLogout` (the guard),
the same two commands and `FinishLogout`. The guard runs on every other request
with the token (`Authenticate`): its MULTI renews the key before the JWT is
looked at. The logout route names the guard a second time, which renews the same
key again: modelled once. `Tick` takes one unit from every lifetime; a key whose
lifetime is over is gone. `met` is a history variable: the requests that ran
while another of the same user did. `deleteSession` has no caller and is left out.

### EventCatalog

A row is its slug, the only column that names an entry; whatever other columns
a write changes, it deletes the same keys and ages the same entries. A reader is
`LookUp`, `Load` and `Fill`, three awaits. A PATCH is `ReadEvent`, `CompareEvent`
and `SaveEvent` (the SELECT and the UPDATE of the save), a DELETE `ReadEvent` and
`DeleteEvent`; then come `DropNamed` (the calls that `Promise.all` starts together: the
deletions by name and both KEYS) and one `DropListed` per key that was found; a
POST scans one pattern after the other (`ScanPattern`). `excused` is a history
variable: the keys whose entry is out of date for a reason that needs more than
the present state to see. Who may write, and the refusals that write nothing,
are left out, and so is the search by distance, which is not cached.

### Users and UserPages

A POST is `Post`, `BeginInsert` (the password is hashed, the transaction begins
and fixes `created_at`) and `Insert` or `InsertConflict`; a PATCH is `Read`,
`Compare` (the SELECT of the save, which finds deleted rows too) and `Write` or
`WriteConflict`; a DELETE is one UPDATE. `Taken` is the partial unique index,
looked at when a row is written. An entity carries the empty `deleted_at` it was
loaded with, so a PATCH over a deletion brings the account back (`NewDeleted`),
if the index lets it. `overtaken` marks a PATCH whose row was written since its
read.

In `UserPages` a reader asks for page after page until the last of `totalPages`.
`created_at` is the time its transaction began, so accounts may share it: the
three that `seed.ts:60` saves in one transaction do, and so do two registrations
in the same microsecond. The ORDER BY names nothing else, so that each query may
answer accounts of one time in another order. A page is therefore any pair of
sets that may come first (`FirstRows`, `Cuts`): those before the offset and those
up to the page's end. `torn` is a history variable: the accounts there all the
time that share `created_at` with one on the other side of such an edge
(`Parted`). No sorted sequence is built.
`QueryRows` and `QueryCount` are the two queries of `findAndCount`, the second of
which TypeORM spares itself when the page shows the end (`Total`).

### Migrations

A migration is two lists of statements; `Can` says when Postgres refuses one,
`Do` what it changes, `Execute` runs a list in one transaction. `Run` executes
all that are pending in one transaction, as TypeORM does by default, `Revert` the
last one backwards. `Ship` adds files, `Store` is any row the application may
write, told apart by its enum value. `Seed` is the seeder: each of `SeedSteps`
commits by itself, and the first that fails ends it. Primary keys, plain column
types and column defaults are left out.

## 3. Runs

| run | checks | bounds |
|---|---|---|
| `orders` | `TypeOK`, `StockNotLost`, `TicketsOnce`, `PaidIsFinal`, `ImplementsSale`, `ReservationsEnd`, `JobsSettle` | two orders of 2 and 1 seats for a lot of 2, two sweeps in batches of 1, which overlap, 2 deliveries per payment, 2 attempts, 1 failing call, 1 restart |
| `admin` | `AdminTypeOK`, `AdminStockNotLost`, `VisibleReservationsEnd` | one order of one seat, two PATCHes (three statuses, this lot or another), deletions, one sweep, 1 delivery, 1 attempt, 1 failing call, 1 restart |
| `lots` | `CatalogTypeOK`, `SoldIsHeld`, `LotStaleExplained`, `DeletedSoldLate`, `ImplementsLedger`, `WaitersServed` | two buyers of 2 and 1 seats, one editor, one deleter, one reader, sizes 2 and 3 |
| `tickets` | `LocksTypeOK`, `LedgerExact`, `NoSeatLost`, `ImplementsTickets`, `RequestsAnswered` | two tickets (one issued by hand), two lots of one seat, two clients, 3 requests, PATCH bodies of one field |
| `mail` | `TypeOK`, `MailsBounded`, `CompletedIsMailed`, `TicketsSettle` | one call of two tickets, the code's 3 attempts, 2 restarts, any number of failing calls |
| `sessions` | `TypeOK`, `OneFreshSession`, `LogoutEndsFresh`, `EndedStaysEnded`, `DeletedLockedOut` | two users, two logins, one logout, keys of 2 ticks, JWTs of 3 |
| `catalog` | `TypeOK`, `StaleExplained` | one event, two slugs, two writers, one reader |
| `users` | `PagesTypeOK`, `OneAccountPerEmail`, `MissedPerDeletion`, `ChangesAsked` | three accounts with any ties among their `created_at`, a fourth to come, four e-mails, two clients with 3 requests, pages of one or two |
| `migrations` | `TypeOK`, `SchemaMatches`, `RevertUndoes`, `FailuresExplained` | all nine migrations, seven row values; nothing else is bounded |

The bounds are the smallest in which the interesting cases meet: two orders that
do not fit the lot together compete for it, a batch of one leaves work for a
later sweep, two attempts distinguish the first failure from the last, two
deliveries make a duplicate. In `admin` there is one sweep (overlapping ones are
in `orders`, and the theorems cover any number of them), and two PATCHes, which
overlap each other and the pipeline; EXPIRED, FAILED and REFUNDED bodies do what
CANCELLED ones do, and another lot does to the amount what a smaller quantity
does. The same instance with bodies of one or two seats keeps `AdminTypeOK` and
`AdminStockNotLost` too (6,775,859 states, too many for a run with liveness). One failing call and one
restart reach every half-done state, since each of them ends the handler or the
job it hits; the theorems below hold for any number. The sweep's batch of fifty
and the five attempts are constants of the model (`BatchSize`, `MaxAttempts`). In `mail` two tickets make a loop with a rest,
and two restarts are a stall and the one that gives a job up. In `sessions` the
token key outlives the index after one renewal, and the JWT outlives both
unrenewed, as fifteen minutes and a day do. In `catalog` two writers and a reader
reach every overlap of a PATCH with another write and with a fill; the entries of
two events share only the lists, which one event already makes stale. In `lots`
an editor, a deleter and the POST that made the lot are three writers with a
reader between them; a second editor adds states and no new overlap, as the row
lock keeps editors apart (`LotsProofs` covers any number). In `tickets` two
clients that move tickets between two full lots deadlock, and a third request
finds what the first two left; one ticket is open to both clients at once. In
`users` of the first accounts' times only the order matters, so they are taken
without gaps (`Dense`); the walk takes up to four pages, and three requests are a registration, a
deletion and a PATCH in any order and overlap. In `migrations` the values are
those that decide whether a migration can be undone, and one harmless value for
each enum.
Deadlock is not checked where a system may run dry (the runs of `Orders`,
`OrdersAdmin`, `LotCatalog`, `TicketLocks`, `UserPages` and `MailQueue`: every
request answered, every job settled; that `TicketLocks` does not stop before is
`RequestsAnswered`). `Tickets`, `Sessions`, `EventCatalog` and `Migrations` never
stop, as clients and readers come back and time passes, and are checked for
deadlock.

`LedgerExact` and `NoSeatLost` name what they need in `lapses`: the stock is exact
until a request writes over one it has not seen, and no seat is lost until one
that had read CANCELLED does. Bodies with a status and a lot, which take or give
a seat too many by themselves, are the subject of section 4.

### Fairness

* Time passes (`Age`); the cron fires every five minutes and each sweep, once it
  has loaded its batch, gets to its orders (`ScanPending` or `ExpireOrder` of
  each sweep, `ScanVisible` or `ExpireLoaded` in `admin`).
* The worker takes a waiting job and runs it (`TakeJob` for some job,
  `WorkerStep`).
* Of the requests of the pipeline, of PATCHes and of Stripe's deliveries nothing
  is asked: reservations end and jobs settle even when these stop where they are.
* Postgres grants row locks in turn: strong fairness of `LockLot`, `TakeSeats`
  or `TakeRefused`, and `MarkDeleted`, since other editors may take the lock
  again and again; weak fairness of `SaveLot`, as a transaction ends.
* In `TicketLocks` the same holds for the rows a request may wait for, one after
  another (strong fairness of `UpdateStock`, `NoSeat` or `LockTicket`); a
  statement that waits for nobody is executed, and Postgres runs its deadlock
  detector (weak fairness of `Compare`, `Commit` or `DeadlockFound`).
* The loop of a call goes on (`CallStep`) and the mail worker takes and runs
  waiting jobs (`TakeMail` for some ticket, `WorkerStep`).
* Time passes for sessions (`Tick`) and their handlers go on (`RequestStep`).

Nothing is assumed of customers (`Pay`), failures or restarts. `JobsSettle` says
that again and again no job waits or runs; it uses that deliveries and faults
are bounded in the model and that the retries of a job end with its attempts.

## 4. Where code and documentation disagree

Each of these runs violates one statement of the repository; the counterexample
is short and `findings` in `PROJECT.json` quotes the statement. The second run
refutes two, of two documents.

| run | statement refuted | how |
|---|---|---|
| `orders_oversold` | inventory accuracy (`README.md:31`) | the worker reads PENDING, the sweep expires the order and frees its seats, another order buys them, the worker writes PAID |
| `orders_emission` | resilient processing (`README.md:30`) | the emission fails once; the retry ignores the order, which is PAID already |
| `orders_emission` | a failed emission leaves the order's other tickets (`docs/diagrams/sequence-async-payment.puml:65-81`) | the same failure leaves none |
| `tickets_entry` | a used or cancelled QR code is refused (`tickets.swagger.ts:59`) | two validations overlap |

The payment diagram draws one `CreateTicket.execute` per ticket, where a
failure is logged and the loop goes on ("Continua loop"), so that an order may
keep some of its tickets and its job completes. The code makes one call with the
quantity (`complete-order.usecase.ts:60`), whose rows are inserted in one
transaction (`create-ticket.usecase.ts`), and hands an exception on to the queue.
`TicketsOnce` states what the code does, all or none and never twice, and would
be violated by the documented loop: a reader who takes the diagram for the
intention should read it as a disagreement, not as a property that holds of
both. The code's job then fails, is retried, and finds the order PAID, which is
the trace of `orders_emission`. The same diagram shows the e-mail sent inside the
loop, where the code queues it for another worker, and the Stripe session made
and saved within the transaction that reserves the seats, where the code does
both after its commit (hence the compensation).

`OrderSale` therefore allows a closed order to become a sale: that is what the
code does. `StockNotLost` is an inequality for a reason of the same kind: seats
are never lost, but they may be given back twice, by a compensation whose second
statement fails and by the sweep that then finds the order PENDING.

Of each of the three runs the models also say how far it goes, and what a repair has to
exclude; section 5 has the proofs.

* Overselling: `Surplus`, what is free or held beyond the lot, is exact step by
  step (`SurplusExplained`). It grows by a `LatePayment` (PAID is written over a
  status that has given its seats back) and by `ReturnedTwice` (a compensation
  returns seats that a sweep has returned, or it stops, or a sweep overtakes it,
  between its two statements), and never shrinks. Without these two `NeverOversold`
  is a theorem: nothing else in the pipeline needs repair.
* Lost emissions: a PAID order that the worker is not about to serve is
  `Abandoned`, and stays so (`AbandonedForEver`): there is no later retry, webhook
  or sweep that could help. One of its own jobs has failed or stalled
  (`AbandonedExplained`). A repair must make the state unreachable, or add a step
  that looks for it.
* Invalid entries: each of them was overtaken between its read and its save
  (`InvalidEntryOvertaken`), so a version column or a status in the WHERE clause of
  the save is enough. In general a ticket becomes only what a request asks that
  succeeds in the same step, or what an overtaken one writes (`RowChangesAsked`).

More consequences of the same gaps can be read off the models and have no run of
their own. A PATCH that read an order before its payment overwrites PAID with any
status, although `update-order.usecase.ts:53` allows CANCELLED and REFUNDED only
(`ReadForPatch`, `WritePatch`; `PaidLeaves` says that nothing else gets around that
check). A lot is deleted although seats of it were sold
between the check and the deletion, against `ticket-types.swagger.ts:139`
(`DeletedSoldLate` says which). The refusal of that deletion advises to set the
quantity to zero (`delete-ticket-type.usecase.ts:30`), which a PATCH refuses
while anything is sold. A PATCH of an order's quantity or lot moves no seat: a
row that shrinks keeps seats nobody will return, one that grows returns more than
it took (`WritePatch`). A logout after fifteen minutes of use finds no
token under the user key, deletes nothing, and the token goes on working, against
`auth.swagger.ts:40` (`getSession` renews the token key only, hence the
`Fresh` in `LogoutEndsFresh`).

A PATCH of a ticket with a status and a lot in one body miscounts, against
`tickets.swagger.ts:144`: CANCELLED with another lot returns the seat of the old
lot twice, and VALID with another lot takes a seat of both for a cancelled ticket
(`Statements`). A body that makes a cancelled ticket USED, which the DTO admits,
takes none. `tickets` is checked with bodies of one field for that
reason, and `StockCountsTickets` assumes it (`OneThing`). For any other bodies
`Miscount` lists these three cases with their seats, and `BalanceExplained` says that
apart from overtaken requests there is no fourth.

A payment that arrives after the expiration completes its job
without tickets, refund or error (`FindOrder`). A PENDING order that is deleted
leaves the sweep's view with its seats taken, which is why `VisibleReservationsEnd`
speaks of visible orders only. Two deletions of one ticket that overlap return
its seat twice, which is why `NoSeatLost` is an inequality as well. POST /tickets
takes no seat (`IssueTicket`), which is why `LedgerExact` counts `issued`. A PATCH
of a user that overlaps its deletion brings the account back (`NewDeleted`).
Pages of users are ordered by `created_at` alone (`list-users.usecase.ts:20`), so that
of the three accounts of the seed, which share it, one may be shown on two pages
and another on none; `MissedPerDeletion` bounds what is missed among the accounts
that no edge of a page parts from others of their time.

Of the migrations: `test/migrations.integration.spec.ts:41` expects
`FixTimestampWithTimeZone` to be the last one, although `AddExpiredToOrderStatus` and
`AddMinimumAgeToEvents` come after it. `FixTimestampWithTimeZone` drops `created_at`, so that every
order is dated anew, and with the column goes `IDX_orders_status_created_at`,
after which the migration before it cannot be reverted (`Stuck`). The way back of
`AddExpiredToOrderStatus` makes its index again with the columns swapped, which
is the difference `RevertUndoes` allows. `database.config.ts:11` hands TypeORM the
text of `DB_SYNC`, of which any that is not empty counts as true; the model has
`synchronize` off, as the data source of the migrations does.

## 5. Proofs

TLAPS checks every leaf. The theorems hold for any finite sets of orders, tickets,
lots, users and requests, any quantities, any number of sweeps, deliveries, attempts,
failures and restarts, from the named assumptions of their modules only. These
say that quantities and bounds are numbers, that sets which are counted are
finite (`CapacityAssumption` of the lots of an event), and that the values which
stand for "no entry" and "not found" are none of the answers
(`AnswersAssumption` in `LotCatalog` and in `EventCatalog`). Where the invariant
a proof rests on goes beyond what the runs check, TLC has checked it on the
same small instances before it was proved. The same holds of the properties that
theorems state and no run lists: those of the lists in section 4 were checked on the
instances of `orders`, `admin` and `tickets_entry`, `BalanceExplained` with all
bodies of two fields, for one client and two tickets and for two clients and one.

`SeatsProofs`: a set of finitely many buyers has finitely many seats
(`SeatsFinite`); a new buyer adds its quantity (`UnitsAdd`), removing one frees
at most its quantity (`UnitsRemove`), `Units` is monotone, and zero for nobody; it
depends on the quantities of the members only (`UnitsSame`), and a change of
one of them changes it by the difference (`UnitsAt`).

### Orders

* `TypeCorrect`: `TypeOK` with `QueueInv` is inductive. `QueueInv` is needed
  because `JobFails` counts attempts up to a bound and because the worker's job
  must be a job whenever its step is not idle.
* `PaidStaysPaid`: `PaidIsFinal` needs `StageInv`. A compensation writes FAILED
  without a condition; that it never hits a PAID row follows from the stages: an
  order is PAID only if its session was paid, a session is paid only after the
  request was answered, and an answered request does not compensate.
* `TicketsEmittedOnce`: `EmissionInv` adds to `TicketsOnce` what the worker
  knows between its steps: from `pay` on its order has no tickets, at `emit` it
  is PAID. This is where duplicate webhooks meet the status check: a second job
  for the same order cannot be past `find`, as there is one worker.
* `StockIsNeverLost`: each action changes the set of holding orders by at most
  one member and the stock by at least its seats in the other direction
  (`UnitsAdd`, `UnitsRemove`, `UnitsMonotone`).
* `PipelineImplementsSale`: every step maps to a step of `OrderSale` or to
  stuttering under `phase` and `delivered`.
* `OnlyTheseMakeASurplus`: `NextSurplus` computes for each action what it adds to
  `Surplus`: nothing, or the quantity of the order when it is one of the two
  culprits. The equivalence is exact, so `SoldWithinSurplus` (sold seats are never
  more than the lot and the surplus) gives `NotOversoldWithoutThese` by induction
  under the assumption that no such step is taken.
* `LostEmissionsStayLost` and `LostEmissionsHaveFailedJobs` rest on `PayInv`: while the
  worker is about to write PAID nobody else has, so no job reaches an order a
  second time; the step that leaves `emit` without tickets counts the attempt or
  marks the job as stalled. `EmittedOnlyAtFirstAttempt` draws
  the conclusion about the documentation's `PaidEmitted`: a behaviour that satisfies
  it never abandons an order, not even for a moment.
* `OnlyPatchesUndoPayments` needs `AllowedInv`: a PATCH that is about to write has
  found its status allowed after the one it read. Of the pipeline's steps only a
  compensation writes without looking, and its order's session was never paid.
* `AdminTypeCorrect` and `AdminLosesNoSeat`: with PATCHes among the steps, what an
  order will return is no longer what it took: the row may have grown or shrunk,
  and a sweep or another PATCH goes by the amount it loaded. `AdminInv` therefore
  says that *some* `m` exists (`Backed`), the seats of the lot that each
  order took and nobody has returned: it is never more than the row says, than any
  sweep has loaded, or than any PATCH has read that may still return it, and
  together with the free and the shrunk seats it covers the lot. Each step is
  shown to keep such an `m`, most of them by lowering it at one order. The steps
  that `OrdersAdmin` takes over are handled once for both modules (`PipelineStep`,
  `StepTypes`, `StepRequests`).

### Lots

* `TypeOK /\ LockInv /\ SoldIsHeld` is inductive. `LockInv` says
  that an editor past its read holds the lock and that what it read is still the
  row; without it `SaveLot`, which writes absolute values, could not be shown to
  keep the sold seats. `LotTypeCorrect`, `LotSoldIsHeld` and
  `LotsImplementLedger` follow.
* With the cache, `CatalogInv` adds `AnswersInv` (a reader by id stores no
  "not found") and `LateInv` (while a deletion is between its check and its
  end, and ever after, whoever holds seats got them late). `CatalogTypeCorrect`,
  `CatalogStaleExplained` and `CatalogDeletedSoldLate` follow; `CatalogKeepsLedger`
  carries the results about `Lots` over, as each step of the catalog is a step of
  the lot or leaves it alone.

### Tickets

* `ReadInv` says what an open request knows: unless overtaken, the
  row as it is. With it `TypeOK` is inductive (`TypeCorrect`).
* `StockCountsTickets` assumes `OneThing` of the bodies (section 4 says what happens
  otherwise) and follows per action: a request that leaves no
  lapse wrote what it read (`NoLapse`), so one row changes in the way its stock
  updates say, a lot gains or loses at most one live ticket (`LiveChanges`), and the
  sum stays (`LedgerFollows`).
* `ChangesAreAskedOrOvertaken`, `InvalidEntriesAreOvertaken` and
  `OnlyValidUnlessOvertaken`: one ticket's row changes in a step (`RowSteps`), and a save
  that nothing overtook knows that row, so that it writes only what it was asked
  (`WriteKnows`). `LocksChangeWhatIsAsked` carries both to the statements under locks.
* `StockMiscountsAreKnown` drops `OneThing`: `BalanceFollows` turns the step of one
  row into a step of the lot's `Balance`, and `BranchesMiscount` goes through
  every combination of a body's fields and the row's status and shows that the four
  stock updates miss the live tickets by `Miscount`, and at the old lot only.
* `EventLosesNoSeat` is about requests that did overwrite each other. It sums over
  the lots, because an overtaken move may give a seat to one lot and leave the
  ticket in another: what counts is that a step never takes more seats than it
  adds live tickets, unless it had read CANCELLED.
* `LocksTypeCorrect` and `LocksImplementTickets` rest on `LocksInv`: what a
  client has changed and still has to change is, lot by lot, what its operation
  asks (`WorkInv`); who has changed a lot holds its lock, and the stock without
  the changes still to be committed is never negative (`LotInv`); a transaction
  that ended has left nothing (`IdleInv`); what a save compares with is the row
  (`FoundInv`). A commit is then one step of `Tickets` and every other statement
  a stutter. `LocksKeepStock` follows from the refinement. The proof does not
  speak of the waits-for graph: an aborted transaction leaves nothing behind
  whatever the reason, and that one is aborted at all is liveness.

### E-mails, sessions, events, users

* `MailsBounded` alone is not inductive. `BudgetInv` pays for
  each e-mail with a counted attempt, with the stall, or with the attempt under
  way; `FreshInv` says that a ticket before its `add` has no job that could have
  spent anything. `MailTypeCorrect`, `MailedWithinAttempts` and
  `CompletionMeansMailed` follow for any number of tickets, attempts and restarts.
* Sessions: `RequestInv` says what a handler knows at each await, and that
  only a finished login has a key. From it `SessionTypeCorrect` and
  `NoSessionComesBack`: a key is set only by a renewal that finds it or by a login
  that has not answered yet.
* `OnlyOneFreshSession` and `LogoutEndsTheSession` need `FreshInv`. Its core is
  `IndexLeads`: while a young session whose login overlapped nothing works, the
  user key names it and outlives its youth. `OthersEndIt` says that any other
  request of the user under way is about to look that key up, or has found the
  session there and will end it; `OverlapsAreMet` that two requests of one user in flight
  are recorded in `met`; `LogoutsHaveLogins` and `LogoutsEndIt` what a logout
  knows of its session, and has done to it when it is answered.
* `EventTypeCorrect` and `EventStaleExplained`: `EventInv` adds to `StaleExplained`
  the kinds of the readers' and editors' records, that an entry by id belongs to
  a row that exists (`EntryInv`, else a POST would age it without deleting it),
  that a reader brings such answers only (`LoadedInv`), and that a PATCH or DELETE
  works on a row that exists, past the save's comparison too (`EditInv`).
* Users: `TypeCorrect` with `RequestInv` (rows are never removed, so a PATCH
  has a row to write). `EmailsAreUnique`: a row becomes active or changes its e-mail
  only past `Taken`, the others keep theirs. `EmailChangesAreAsked` needs
  `CurrentInv`: a PATCH that nothing overtook knows its row, which is active, so
  what it writes beyond the body is what is there.
* The walk through the pages: accounts of one time are counted in a fixed order
  (`Place`), which no page follows, so that ranks are distinct (`RankDistinct`). A
  query answers as many rows as it was asked for, or all there are
  (`FirstRowsSize`), and an account that no edge parts from others of its time is
  before the edge exactly if its rank is (`RankInside`). So a page
  shows of the accounts not `torn` those whose ranks were asked for, and one that is
  not full reaches the end (`PageSize`). `WalkInv` says that of these ranks (`Reach`) no more
  accounts are missing than were deleted: a registration or a return only raises
  ranks (`RankGrows`), a deletion lowers them by one at most (`RankDrops`), which
  moves one account at most across `Reach`. When the last page is answered the
  ranks asked for are all, by the count or because that page showed the end.
  `PagesTypeCorrect` and `WalkMissesPerDeletion` follow, with nothing assumed of
  the times; `ReadingKeepsAccounts` carries the results about `Users` over.

### Only model-checked

* All liveness properties (`ReservationsEnd`, `JobsSettle`, `VisibleReservationsEnd`,
  `WaitersServed`, `RequestsAnswered`, `TicketsSettle`, `DeletedLockedOut`): fairness
  and ENABLED are beyond the prover.
* `Migrations` (`TypeOK`, `SchemaMatches`, `RevertUndoes`, `FailuresExplained`): its
  operators fold lists of statements over the schema and put names of types together
  from strings. The first is an induction over data, the second has no theory
  in the provers; and there are no constants to generalise over but the row
  values, so that TLC's run says nearly all there is to say.

## 6. Not modelled

* Order queries: `find-order` and `list-orders` change nothing. The list is paged
  as in `UserPages` but names no order, so that the database may answer any rows
  and no property of a walk holds.
* The roles guard decides on one request and its user, the slug and the mappers
  are formatting; nothing depends on an order of events.
* Uploads ask for a signed URL, health probes and logging keep no state, the error
  filter and the API documents are wording, the modules and `main.ts` wiring.
* The search of events by distance and the other uncached reads.
* Columns that no other step reads: names, prices, pictures, passwords, the owner
  a PATCH of a ticket reassigns. Where a save writes only because of them this is
  kept (`others` in `TicketLocks`).
* The rows that a failed seeding leaves behind: `FailuresExplained` says when the
  seeder fails, not what is in the tables then.

## 7. Plan

What would add most from here is `MailQueue` as an implementation of the step of
`Orders` that hands the e-mails of an emission over.
