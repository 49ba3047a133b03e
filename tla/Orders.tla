------------------------------ MODULE Orders ------------------------------
(***************************************************************************)
(* The checkout pipeline of the API around one ticket lot:                 *)
(*                                                                         *)
(*   POST /orders          CreateOrderUseCase: check, reserve in one       *)
(*                         transaction, open a Stripe session, or          *)
(*                         compensate when that fails                      *)
(*   POST /orders/webhook  Stripe reports a payment; a job is queued       *)
(*   orders-queue worker   CompleteOrderUseCase: mark PAID, emit tickets   *)
(*   cron                  OrderExpirationService: expire old PENDING      *)
(*                         orders and give their seats back                *)
(*                                                                         *)
(* One action is one statement or transaction the code awaits: between two *)
(* awaits every other actor may run.  One request stands for one order, so *)
(* an order is named by its request.                                       *)
(*                                                                         *)
(* A definition marked (bug) is used by no specification: it is what the   *)
(* definition after it would be with a plausible mistake, and the mutants  *)
(* of PROJECT.json put it there to see a property fail.                    *)
(***************************************************************************)
EXTENDS Seats

CONSTANTS
    Orders,         \* the POST /orders requests, each naming its order
    Qty,            \* Qty[o] : dto.quantity of request o
    Total,          \* totalQuantity of the lot
    Sweeps,         \* the cron runs that may be in progress together
    BatchSize,      \* "take" of the expiration query
    MaxAttempts,    \* "attempts" of a complete-order job
    MaxDeliveries,  \* bound: webhook deliveries of one payment
    MaxFaults,      \* bound: failing calls to the database or to Stripe
    MaxCrashes,     \* bound: restarts of the process
    NoJob           \* what the worker holds when it is idle

ASSUME QtyAssumption == Qty \in [Orders -> Nat \ {0}]
ASSUME OrdersAssumption == IsFiniteSet(Orders)
ASSUME BoundsAssumption ==
    /\ Total \in Nat
    /\ BatchSize \in Nat \ {0}
    /\ MaxAttempts \in Nat \ {0}
    /\ MaxDeliveries \in Nat
    /\ MaxFaults \in Nat
    /\ MaxCrashes \in Nat

VARIABLES
    avail,      \* ticket_types.available_quantity
    status,     \* status[o] : orders.status, "NONE" before the row exists
    old,        \* old[o] : the row is more than a minute old
    req,        \* req[o] : where the handler of POST /orders stands
    session,    \* session[o] : the checkout session at Stripe
    job,        \* job[j] : a complete-order job in Redis
    worker,     \* the job the single worker holds, or NoJob
    step,       \* where the worker stands in CompleteOrderUseCase
    tickets,    \* tickets[o] : ticket rows emitted for order o
    batch,      \* batch[s] : orders sweep s loaded and has not handled
    faults,     \* failing calls so far
    crashes     \* restarts so far

vars == <<avail, status, old, req, session, job, worker, step, tickets,
          batch, faults, crashes>>

OrderStatus == {"PENDING", "PAID", "EXPIRED", "FAILED", "CANCELLED", "REFUNDED"}

\* "new": not received; "checked", "reserved", "opened", "undoing" and
\* "returned" are the awaits inside the handler; the others are its outcomes.
InFlight == {"checked", "reserved", "opened", "undoing", "returned"}
HandlerStates == InFlight \union {"new", "answered", "refused", "error", "lost"}

Jobs == Orders \X (1 .. MaxDeliveries)

ASSUME NoJobAssumption == NoJob \notin Jobs

OrderOf(j) == j[1]

JobStates == {"none", "waiting", "active", "completed", "failed"}

WorkerSteps == {"idle", "find", "pay", "emit", "mail"}

TypeOK ==
    /\ avail \in Nat
    /\ status \in [Orders -> OrderStatus \union {"NONE"}]
    /\ old \in [Orders -> BOOLEAN]
    /\ req \in [Orders -> HandlerStates]
    /\ session \in [Orders -> {"none", "open", "paid"}]
    /\ job \in [Jobs -> [state : JobStates, tries : 0 .. MaxAttempts, stalled : BOOLEAN]]
    /\ worker \in Jobs \union {NoJob}
    /\ step \in WorkerSteps
    /\ tickets \in [Orders -> Nat]
    /\ batch \in [Sweeps -> SUBSET Orders]
    /\ faults \in 0 .. MaxFaults
    /\ crashes \in 0 .. MaxCrashes

Init ==
    /\ avail = Total
    /\ status = [o \in Orders |-> "NONE"]
    /\ old = [o \in Orders |-> FALSE]
    /\ req = [o \in Orders |-> "new"]
    /\ session = [o \in Orders |-> "none"]
    /\ job = [j \in Jobs |-> [state |-> "none", tries |-> 0, stalled |-> FALSE]]
    /\ worker = NoJob
    /\ step = "idle"
    /\ tickets = [o \in Orders |-> 0]
    /\ batch = [s \in Sweeps |-> {}]
    /\ faults = 0
    /\ crashes = 0

-----------------------------------------------------------------------------
(* Repositories *)

\* The guarded UPDATE; when it affects no row the code throws, and the
\* action that calls it has a refusing twin.
\* (bug) the UPDATE has no condition on the quantity.
DecrementStockUnguarded(q) == avail' = avail - q
DecrementStock(q) ==
    /\ avail >= q
    /\ avail' = avail - q

\* (bug) the seats are not given back.
IncrementStockLost(q) == avail' = avail
IncrementStock(q) == avail' = avail + q

UpdateStatus(o, s) == status' = [status EXCEPT ![o] = s]

GoTo(o, s) == req' = [req EXCEPT ![o] = s]

\* A call to the database or to Stripe throws.
Fault ==
    /\ faults < MaxFaults
    /\ faults' = faults + 1

-----------------------------------------------------------------------------
(* POST /orders : CreateOrderUseCase *)

\* The stock is read without a lock, long before it is taken.
CheckStock(o) ==
    /\ req[o] = "new"
    /\ GoTo(o, IF avail < Qty[o] THEN "refused" ELSE "checked")
    /\ UNCHANGED <<avail, status, old, session, job, worker, step, tickets,
                   batch, faults, crashes>>

\* One transaction takes the seats and inserts the order.
Reserve(o) ==
    /\ req[o] = "checked"
    /\ DecrementStock(Qty[o])
    /\ UpdateStatus(o, "PENDING")
    /\ GoTo(o, "reserved")
    /\ UNCHANGED <<old, session, job, worker, step, tickets, batch, faults, crashes>>

\* The seats went to somebody else since CheckStock: the transaction rolls back.
ReserveRefused(o) ==
    /\ req[o] = "checked"
    /\ avail < Qty[o]
    /\ GoTo(o, "refused")
    /\ UNCHANGED <<avail, status, old, session, job, worker, step, tickets,
                   batch, faults, crashes>>

OpenSession(o) ==
    /\ req[o] = "reserved"
    /\ session' = [session EXCEPT ![o] = "open"]
    /\ GoTo(o, "opened")
    /\ UNCHANGED <<avail, status, old, job, worker, step, tickets, batch,
                   faults, crashes>>

\* updateSessionId, then the answer with the checkout URL: from here on the
\* customer can pay.
SaveSession(o) ==
    /\ req[o] = "opened"
    /\ GoTo(o, "answered")
    /\ UNCHANGED <<avail, status, old, session, job, worker, step, tickets,
                   batch, faults, crashes>>

\* An exception of the check or the reservation leaves nothing behind; one of
\* the session or of updateSessionId enters the catch block; one inside the
\* catch block leaves the handler with what it has done so far.
HandlerFails(o) ==
    /\ Fault
    /\ \/ /\ req[o] \in {"new", "checked"}
          /\ GoTo(o, "refused")
       \/ /\ req[o] \in {"reserved", "opened"}
          /\ GoTo(o, "undoing")
       \/ /\ req[o] \in {"undoing", "returned"}
          /\ GoTo(o, "error")
    /\ UNCHANGED <<avail, status, old, session, job, worker, step, tickets,
                   batch, crashes>>

\* First half of the compensation, in a transaction of its own.
ReturnStock(o) ==
    /\ req[o] = "undoing"
    /\ IncrementStock(Qty[o])
    /\ GoTo(o, "returned")
    /\ UNCHANGED <<status, old, session, job, worker, step, tickets, batch,
                   faults, crashes>>

\* Second half: the status is overwritten whatever it has become.
MarkFailed(o) ==
    /\ req[o] = "returned"
    /\ UpdateStatus(o, "FAILED")
    /\ GoTo(o, "error")
    /\ UNCHANGED <<avail, old, session, job, worker, step, tickets, batch,
                   faults, crashes>>

-----------------------------------------------------------------------------
(* Stripe and the webhook *)

\* The customer pays at Stripe, any time after having received the URL.
Pay(o) ==
    /\ req[o] = "answered"
    /\ session[o] = "open"
    /\ session' = [session EXCEPT ![o] = "paid"]
    /\ UNCHANGED <<avail, status, old, req, job, worker, step, tickets, batch,
                   faults, crashes>>

\* checkout.session.completed reaches the webhook, once or more; each delivery
\* adds a job, as the job has no identifier Redis could tell it by.
DeliverWebhook(j) ==
    /\ session[OrderOf(j)] = "paid"
    /\ job[j].state = "none"
    /\ job' = [job EXCEPT ![j].state = "waiting"]
    /\ UNCHANGED <<avail, status, old, req, session, worker, step, tickets,
                   batch, faults, crashes>>

-----------------------------------------------------------------------------
(* orders-queue : OrdersProcessor and CompleteOrderUseCase *)

\* The single worker takes any waiting job: retries wait out their backoff, so
\* the order of arrival is not kept.
TakeJob(j) ==
    /\ worker = NoJob
    /\ job[j].state = "waiting"
    /\ job' = [job EXCEPT ![j].state = "active"]
    /\ worker' = j
    /\ step' = "find"
    /\ UNCHANGED <<avail, status, old, req, session, tickets, batch, faults, crashes>>

JobDone ==
    /\ job' = [job EXCEPT ![worker].state = "completed"]
    /\ worker' = NoJob
    /\ step' = "idle"

\* (bug) the status is not looked at.
FindOrderSkipsCheck(found) ==
    /\ step = "find"
    /\ step' = "pay"
    /\ UNCHANGED <<avail, status, old, req, session, job, worker, tickets, batch,
                   faults, crashes>>
\* (bug) an ignored order leaves its job without an answer.
FindOrderHangs(found) ==
    /\ step = "find" /\ found = "PENDING"
    /\ step' = "pay"
    /\ UNCHANGED <<avail, status, old, req, session, job, worker, tickets, batch,
                   faults, crashes>>
\* An order that is gone or not PENDING is ignored and its job completes.
FindOrderAs(found) ==
    /\ step = "find"
    /\ IF found = "PENDING"
       THEN step' = "pay" /\ UNCHANGED <<job, worker>>
       ELSE JobDone
    /\ UNCHANGED <<avail, status, old, req, session, tickets, batch, faults, crashes>>

FindOrder == FindOrderAs(status[OrderOf(worker)])

\* The row is set to PAID by its id alone, however old the read above is.
MarkPaid ==
    /\ step = "pay"
    /\ UpdateStatus(OrderOf(worker), "PAID")
    /\ step' = "emit"
    /\ UNCHANGED <<avail, old, req, session, job, worker, tickets, batch, faults, crashes>>

\* All tickets of the order are inserted by one transaction of
\* CreateTicketUseCase; no seat is taken here.
EmitTicketsOf(q) ==
    /\ step = "emit"
    /\ tickets' = [tickets EXCEPT ![OrderOf(worker)] = @ + q]
    /\ step' = "mail"
    /\ UNCHANGED <<avail, status, old, req, session, job, worker, batch, faults, crashes>>

EmitTickets == EmitTicketsOf(Qty[OrderOf(worker)])

\* The e-mail jobs are queued, their errors swallowed, and the job completes.
FinishJob ==
    /\ step = "mail"
    /\ JobDone
    /\ UNCHANGED <<avail, status, old, req, session, tickets, batch, faults, crashes>>

\* Any exception is rethrown to BullMQ: the job is retried until its attempts
\* are spent, always from the beginning of CompleteOrderUseCase.
JobFails ==
    /\ step \in {"find", "pay", "emit"}
    /\ Fault
    /\ job' = [job EXCEPT ![worker].tries = @ + 1,
                          ![worker].state = IF job[worker].tries + 1 < MaxAttempts
                                            THEN "waiting" ELSE "failed"]
    /\ worker' = NoJob
    /\ step' = "idle"
    /\ UNCHANGED <<avail, status, old, req, session, tickets, batch, crashes>>

-----------------------------------------------------------------------------
(* Cron : OrderExpirationService *)

\* A minute goes by.
Age(o) ==
    /\ status[o] # "NONE"
    /\ ~old[o]
    /\ old' = [old EXCEPT ![o] = TRUE]
    /\ UNCHANGED <<avail, status, req, session, job, worker, step, tickets,
                   batch, faults, crashes>>

\* (bug) the comparison of createdAt is turned round.
ExpirableYoung == {o \in Orders : status[o] = "PENDING" /\ ~old[o]}
Expirable == {o \in Orders : status[o] = "PENDING" /\ old[o]}

\* The query returns up to BatchSize orders, any of those it may return.
ScanFrom(s, candidates) ==
    /\ batch[s] = {}
    /\ \E found \in SUBSET candidates :
          /\ found # {}
          /\ Cardinality(found) = BatchSize
             \/ (Cardinality(found) < BatchSize /\ found = candidates)
          /\ batch' = [batch EXCEPT ![s] = found]
    /\ UNCHANGED <<avail, status, old, req, session, job, worker, step, tickets,
                   faults, crashes>>

ScanPending(s) == ScanFrom(s, Expirable)

\* One transaction per order: only if it is still PENDING is it expired, and
\* only then are its seats given back.
\* (bug) the update names the order alone, not its status.
ExpireUnguarded(s, o, q) ==
    /\ o \in batch[s]
    /\ UpdateStatus(o, "EXPIRED")
    /\ IncrementStock(q)
    /\ batch' = [batch EXCEPT ![s] = @ \ {o}]
    /\ UNCHANGED <<old, req, session, job, worker, step, tickets, faults, crashes>>
ExpireOrderOf(s, o, q) ==
    /\ o \in batch[s]
    /\ IF status[o] = "PENDING"
       THEN UpdateStatus(o, "EXPIRED") /\ IncrementStock(q)
       ELSE UNCHANGED <<status, avail>>
    /\ batch' = [batch EXCEPT ![s] = @ \ {o}]
    /\ UNCHANGED <<old, req, session, job, worker, step, tickets, faults, crashes>>

ExpireOrder(s, o) == ExpireOrderOf(s, o, Qty[o])

\* The transaction rolls back, the error is logged, the loop goes on.
ExpireFails(s, o) ==
    /\ o \in batch[s]
    /\ Fault
    /\ batch' = [batch EXCEPT ![s] = @ \ {o}]
    /\ UNCHANGED <<avail, status, old, req, session, job, worker, step, tickets, crashes>>

-----------------------------------------------------------------------------
(* The process restarts: what lives in its memory is gone, the database, Redis
   and Stripe stay.  BullMQ puts the stalled job back in the queue once
   (maxStalledCount) and gives it up the second time. *)

CrashJob ==
    job' = [j \in Jobs |->
              IF job[j].state # "active" THEN job[j]
              ELSE [job[j] EXCEPT !.state = IF job[j].stalled THEN "failed" ELSE "waiting",
                                  !.stalled = TRUE]]

Crash ==
    /\ crashes < MaxCrashes
    /\ crashes' = crashes + 1
    /\ req' = [o \in Orders |-> IF req[o] \in InFlight THEN "lost" ELSE req[o]]
    /\ CrashJob
    /\ worker' = NoJob
    /\ step' = "idle"
    /\ batch' = [s \in Sweeps |-> {}]
    /\ UNCHANGED <<avail, status, old, session, tickets, faults>>

-----------------------------------------------------------------------------

HandlerStep(o) ==
    \/ CheckStock(o) \/ Reserve(o) \/ ReserveRefused(o)
    \/ OpenSession(o) \/ SaveSession(o)
    \/ ReturnStock(o) \/ MarkFailed(o)

WorkerStep == FindOrder \/ MarkPaid \/ EmitTickets \/ FinishJob

\* The steps that no order's row is read for.
BlindStep ==
    \/ \E o \in Orders : HandlerStep(o) \/ HandlerFails(o) \/ Pay(o) \/ Age(o)
    \/ \E j \in Jobs : DeliverWebhook(j) \/ TakeJob(j)
    \/ MarkPaid \/ FinishJob \/ JobFails
    \/ \E s \in Sweeps, o \in Orders : ExpireFails(s, o)

Next ==
    \/ BlindStep
    \/ FindOrder \/ EmitTickets
    \/ \E s \in Sweeps : ScanPending(s) \/ \E o \in Orders : ExpireOrder(s, o)
    \/ Crash

\* Time passes, the cron fires every five minutes and works through its batch,
\* the worker takes jobs and runs them.  Nobody has to pay or to fail; nothing
\* is asked of the requests, which may stop at any await, nor of Stripe.
Fairness ==
    /\ \A o \in Orders : WF_vars(Age(o))
    /\ \A s \in Sweeps : WF_vars(ScanPending(s) \/ \E o \in Orders : ExpireOrder(s, o))
    /\ WF_vars(\E j \in Jobs : TakeJob(j))
    /\ WF_vars(WorkerStep)

Spec == Init /\ [][Next]_vars
FairSpec == Spec /\ Fairness

-----------------------------------------------------------------------------
(* Properties *)

\* Orders whose seats the lot owes them: unpaid reservations, and sales.  Half
\* way through a compensation the seats are back although the row still says
\* PENDING.
Returning == {o \in Orders : req[o] = "returned"}
Holding == {o \in Orders : status[o] \in {"PENDING", "PAID"}} \ Returning
Sold == {o \in Orders : status[o] = "PAID"}

\* No seat is ever lost: what is free and what is held always add up to at
\* least the lot, whichever of the reservation, the compensation, the
\* expiration and a restart got half way or overtook another
\* (decrementStock and incrementStock in all their callers).
StockNotLost == avail + Units(Holding, Qty) >= Total

\* A paid order stays paid: neither an expiration that loaded it as PENDING
\* nor the unconditional FAILED of a compensation overwrites the payment.
PaidIsFinal == [][\A o \in Orders : status[o] = "PAID" => status'[o] = "PAID"]_vars

\* An order's tickets are emitted all together, at most once and only after
\* it was paid, through duplicate webhooks, retries and stalled jobs
\* (CompleteOrderUseCase as the worker runs it).  All together is what the code
\* does, in one transaction for the order; sequence-async-payment.puml draws one
\* emission per ticket, of which some may fail.
TicketsOnce ==
    \A o \in Orders :
        /\ tickets[o] \in {0, Qty[o]}
        /\ tickets[o] > 0 => status[o] = "PAID"

\* No reservation lasts for ever: it is paid, compensated or expired
\* (OrderExpirationService), also after a restart left its request without an
\* answer.
ReservationsEnd ==
    \A o \in Orders : status[o] = "PENDING" ~> status[o] # "PENDING"

\* Every queued job is settled, and the queue is worked off again and again: no
\* job stays behind the single worker, its own retries or a restart for ever
\* (orders-queue).
JobsSettle == []<>(\A j \in Jobs : job[j].state \in {"none", "completed", "failed"})

\* The sale of each order, as OrderSale states it.
SalePhase(st) ==
    CASE st = "NONE" -> "none"
      [] st = "PENDING" -> "held"
      [] st = "PAID" -> "sold"
      [] OTHER -> "closed"

Sale == INSTANCE OrderSale WITH
    phase <- [o \in Orders |-> SalePhase(status[o])],
    delivered <- {o \in Orders : tickets[o] > 0}

\* Every step of the pipeline is a step of OrderSale or none
\* (the status column and the ticket rows as the customer sees them).
ImplementsSale == Sale!Spec

-----------------------------------------------------------------------------
(* The inductive strengthening of the properties above (OrdersProofs) *)

\* The worker holds an active job exactly while it is not idle, and only jobs
\* that still have attempts are queued or running.
QueueInv ==
    /\ step = "idle" <=> worker = NoJob
    /\ worker # NoJob => job[worker].state = "active"
    /\ \A j \in Jobs : job[j].state \notin {"completed", "failed"}
                         => job[j].tries < MaxAttempts

\* Each stage of an order presupposes the one before it: a row is inserted by
\* its request, paid sessions belong to answered requests, and jobs to paid
\* sessions.
RequestInv ==
    /\ \A o \in Orders :
          /\ req[o] \in {"new", "checked", "refused"} => status[o] = "NONE"
          /\ status[o] = "NONE" => req[o] \in {"new", "checked", "refused", "lost"}
          /\ session[o] = "paid" => req[o] = "answered"
    /\ \A j \in Jobs : job[j].state # "none" => session[OrderOf(j)] = "paid"

\* And only a job marks an order PAID.
StageInv ==
    /\ RequestInv
    /\ \A o \in Orders : status[o] = "PAID" => req[o] = "answered"

\* The worker emits for an order without tickets, which it has marked PAID.
EmissionInv ==
    /\ TicketsOnce
    /\ step \in {"pay", "emit"} => tickets[OrderOf(worker)] = 0
    /\ step = "emit" => status[OrderOf(worker)] = "PAID"

-----------------------------------------------------------------------------
(* What the documentation says and the code does not keep *)

\* "Automated reservation/order consistency ... preserving ticket inventory
\* accuracy" (README): the lot is never sold beyond its size.
NeverOversold == Units(Sold, Qty) <= Total

\* Seats that are on offer or held beyond the lot.
Surplus == avail + Units(Holding, Qty) - Total

\* A payment reaches an order that has already given its seats back.
LatePayment ==
    \E o \in Orders : status[o] \notin {"PENDING", "PAID"} /\ status'[o] = "PAID"

\* A compensation returns seats that the sweep has returned, or stops, or is overtaken
\* by the sweep, between its two statements.
ReturnedTwice ==
    \E o \in Orders :
        \/ ReturnStock(o) /\ status[o] # "PENDING"
        \/ /\ o \in Returning
           /\ status[o] = "PENDING"
           /\ IF status'[o] = "PENDING" THEN req'[o] # "returned" ELSE status'[o] = "EXPIRED"

\* A surplus never shrinks, and nothing else than these two makes one
\* (CompleteOrderUseCase and CreateOrderUseCase against OrderExpirationService).
SurplusExplained ==
    [][/\ Surplus' >= Surplus
       /\ Surplus' > Surplus <=> LatePayment \/ ReturnedTwice]_vars

\* "resilient background processing" (README): an order marked PAID gets its
\* tickets, if not at the first attempt of its job then at a retry.
PaidEmitted ==
    \A o \in Orders : status[o] = "PAID" ~> tickets[o] = Qty[o]

\* A paid order without tickets, which the worker is not about to emit.
Abandoned(o) ==
    /\ status[o] = "PAID"
    /\ tickets[o] = 0
    /\ ~(step = "emit" /\ OrderOf(worker) = o)

\* It stays one: neither the retries of its job, nor a duplicate webhook, nor a
\* restart brings its tickets (CompleteOrderUseCase ignores what is PAID).
AbandonedForEver == [][\A o \in Orders : Abandoned(o) => Abandoned(o)']_vars

\* A job of such an order has failed, or stalled when the process restarted.
AbandonedExplained ==
    \A o \in Orders : Abandoned(o) =>
        \E j \in Jobs : OrderOf(j) = o /\ (job[j].tries > 0 \/ job[j].stalled)
=============================================================================
