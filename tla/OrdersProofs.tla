--------------------------- MODULE OrdersProofs ---------------------------
(***************************************************************************)
(* Theorems about Orders and OrdersAdmin, for any set of requests, any     *)
(* quantities, any lot and any bounds.                                     *)
(***************************************************************************)
EXTENDS OrdersAdmin, SeatsProofs

-----------------------------------------------------------------------------
(* Types *)

\* The initial state has the declared types.
LEMMA InitTypes == Init => TypeOK /\ QueueInv
BY QtyAssumption, BoundsAssumption, NoJobAssumption
   DEF Init, TypeOK, QueueInv, OrderStatus, HandlerStates, JobStates, WorkerSteps

USE BoundsAssumption, QtyAssumption, NoJobAssumption

\* A step of the pipeline, whatever it reads of the rows of orders.
PipelineStep ==
    \/ BlindStep
    \/ \E found \in OrderStatus \union {"NONE"} : FindOrderAs(found)
    \/ \E q \in Nat : EmitTicketsOf(q)
    \/ \E s \in Sweeps, candidates \in SUBSET Orders : ScanFrom(s, candidates)
    \/ \E s \in Sweeps, o \in Orders, q \in Nat : ExpireOrderOf(s, o, q)
    \/ Crash

LEMMA NextIsPipeline ==
    ASSUME TypeOK, QueueInv, [Next]_vars PROVE [PipelineStep]_vars
<1>1. ASSUME FindOrder PROVE PipelineStep
    <2>1. status[OrderOf(worker)] \in OrderStatus \union {"NONE"}
        BY <1>1 DEF FindOrder, FindOrderAs, TypeOK, QueueInv, Jobs, OrderOf
    <2> QED BY <1>1, <2>1 DEF FindOrder, PipelineStep
<1>2. ASSUME EmitTickets PROVE PipelineStep
    <2>1. Qty[OrderOf(worker)] \in Nat
        BY <1>2 DEF EmitTickets, EmitTicketsOf, TypeOK, QueueInv, Jobs, OrderOf
    <2> QED BY <1>2, <2>1 DEF EmitTickets, PipelineStep
<1>3. ASSUME NEW s \in Sweeps, ScanPending(s) PROVE PipelineStep
    <2>1. Expirable \in SUBSET Orders
        BY DEF Expirable
    <2> QED BY <1>3, <2>1 DEF ScanPending, PipelineStep
<1>4. ASSUME NEW s \in Sweeps, NEW o \in Orders, ExpireOrder(s, o) PROVE PipelineStep
    <2>1. Qty[o] \in Nat
        OBVIOUS
    <2> QED BY <1>4, <2>1 DEF ExpireOrder, PipelineStep
<1> QED BY <1>1, <1>2, <1>3, <1>4 DEF Next, PipelineStep

\* Types and the state of the queue are kept by every step.
LEMMA StepTypes == TypeOK /\ QueueInv /\ [PipelineStep]_vars => TypeOK' /\ QueueInv'
<1> SUFFICES ASSUME TypeOK, QueueInv, [PipelineStep]_vars PROVE TypeOK' /\ QueueInv'
    OBVIOUS
<1> USE DEF TypeOK, QueueInv, OrderStatus, HandlerStates, InFlight, JobStates, WorkerSteps
<1>1. ASSUME NEW o \in Orders, CheckStock(o) PROVE TypeOK' /\ QueueInv'
    BY <1>1 DEF CheckStock, GoTo
<1>2. ASSUME NEW o \in Orders, Reserve(o) PROVE TypeOK' /\ QueueInv'
    BY <1>2 DEF Reserve, DecrementStock, UpdateStatus, GoTo
<1>3. ASSUME NEW o \in Orders, ReserveRefused(o) PROVE TypeOK' /\ QueueInv'
    BY <1>3 DEF ReserveRefused, GoTo
<1>4. ASSUME NEW o \in Orders, OpenSession(o) PROVE TypeOK' /\ QueueInv'
    BY <1>4 DEF OpenSession, GoTo
<1>5. ASSUME NEW o \in Orders, SaveSession(o) PROVE TypeOK' /\ QueueInv'
    BY <1>5 DEF SaveSession, GoTo
<1>6. ASSUME NEW o \in Orders, HandlerFails(o) PROVE TypeOK' /\ QueueInv'
    BY <1>6 DEF HandlerFails, GoTo, Fault
<1>7. ASSUME NEW o \in Orders, ReturnStock(o) PROVE TypeOK' /\ QueueInv'
    BY <1>7 DEF ReturnStock, IncrementStock, GoTo
<1>8. ASSUME NEW o \in Orders, MarkFailed(o) PROVE TypeOK' /\ QueueInv'
    BY <1>8 DEF MarkFailed, UpdateStatus, GoTo
<1>9. ASSUME NEW o \in Orders, Pay(o) PROVE TypeOK' /\ QueueInv'
    BY <1>9 DEF Pay
<1>10. ASSUME NEW j \in Jobs, DeliverWebhook(j) PROVE TypeOK' /\ QueueInv'
    BY <1>10 DEF DeliverWebhook
<1>11. ASSUME NEW j \in Jobs, TakeJob(j) PROVE TypeOK' /\ QueueInv'
    BY <1>11 DEF TakeJob
<1>12. ASSUME NEW found, FindOrderAs(found) PROVE TypeOK' /\ QueueInv'
    BY <1>12 DEF FindOrderAs, JobDone
<1>13. ASSUME MarkPaid PROVE TypeOK' /\ QueueInv'
    BY <1>13 DEF MarkPaid, UpdateStatus
<1>14. ASSUME NEW q \in Nat, EmitTicketsOf(q) PROVE TypeOK' /\ QueueInv'
    BY <1>14 DEF EmitTicketsOf, Jobs, OrderOf
<1>15. ASSUME FinishJob PROVE TypeOK' /\ QueueInv'
    BY <1>15 DEF FinishJob, JobDone
<1>16. ASSUME JobFails PROVE TypeOK' /\ QueueInv'
    BY <1>16 DEF JobFails, Fault
<1>17. ASSUME NEW o \in Orders, Age(o) PROVE TypeOK' /\ QueueInv'
    BY <1>17 DEF Age
<1>18. ASSUME NEW s \in Sweeps, NEW candidates \in SUBSET Orders, ScanFrom(s, candidates)
       PROVE TypeOK' /\ QueueInv'
    BY <1>18 DEF ScanFrom
<1>19. ASSUME NEW s \in Sweeps, NEW o \in Orders, NEW q \in Nat, ExpireOrderOf(s, o, q)
       PROVE TypeOK' /\ QueueInv'
    BY <1>19 DEF ExpireOrderOf, UpdateStatus, IncrementStock
<1>20. ASSUME NEW s \in Sweeps, NEW o \in Orders, ExpireFails(s, o)
       PROVE TypeOK' /\ QueueInv'
    BY <1>20 DEF ExpireFails, Fault
<1>21. ASSUME Crash PROVE TypeOK' /\ QueueInv'
    <2>1. ASSUME NEW j \in Jobs
          PROVE  /\ job'[j] \in [state : JobStates, tries : 0 .. MaxAttempts,
                                  stalled : BOOLEAN]
                 /\ job'[j].state \notin {"completed", "failed"}
                    => job'[j].tries < MaxAttempts
        <3>1. CASE job[j].state # "active"
            BY <1>21, <3>1 DEF Crash, CrashJob
        <3>2. CASE job[j].state = "active" /\ job[j].stalled
            BY <1>21, <3>2 DEF Crash, CrashJob
        <3>3. CASE job[j].state = "active" /\ ~job[j].stalled
            BY <1>21, <3>3 DEF Crash, CrashJob
        <3> QED BY <3>1, <3>2, <3>3
    <2>2. job' \in [Jobs -> [state : JobStates, tries : 0 .. MaxAttempts,
                             stalled : BOOLEAN]]
        BY <2>1, <1>21 DEF Crash, CrashJob
    <2>3. req' \in [Orders -> HandlerStates]
        BY <1>21 DEF Crash
    <2> QED BY <2>1, <2>2, <2>3, <1>21 DEF Crash
<1>22. ASSUME UNCHANGED vars PROVE TypeOK' /\ QueueInv'
    BY <1>22 DEF vars
<1> QED
    BY <1>1, <1>2, <1>3, <1>4, <1>5, <1>6, <1>7, <1>8, <1>9, <1>10, <1>11, <1>12,
       <1>13, <1>14, <1>15, <1>16, <1>17, <1>18, <1>19, <1>20, <1>21, <1>22
       DEF PipelineStep, HandlerStep, BlindStep

LEMMA NextTypes == TypeOK /\ QueueInv /\ [Next]_vars => TypeOK' /\ QueueInv'
BY NextIsPipeline, StepTypes

\* Every variable keeps its type; in particular the available quantity never
\* becomes negative, whatever handlers, sweeps and retries interleave.
THEOREM TypeCorrect == Spec => []TypeOK
<1>1. Spec => [](TypeOK /\ QueueInv)
    BY InitTypes, NextTypes, PTL DEF Spec
<1> QED BY <1>1, PTL

-----------------------------------------------------------------------------
(* Stages of an order *)

\* Each stage presupposes the one before it, in every reachable state.
LEMMA StepRequests ==
    TypeOK /\ QueueInv /\ RequestInv /\ [PipelineStep]_vars => RequestInv'
<1> SUFFICES ASSUME TypeOK, QueueInv, RequestInv, [PipelineStep]_vars PROVE RequestInv'
    OBVIOUS
<1> USE DEF TypeOK, RequestInv, OrderStatus, HandlerStates, InFlight, OrderOf
<1>a. \A j \in Jobs : OrderOf(j) \in Orders
    BY DEF Jobs
<1>b. worker # NoJob => worker \in Jobs /\ req[OrderOf(worker)] = "answered"
    BY <1>a DEF QueueInv
<1>1. ASSUME NEW o \in Orders, CheckStock(o) PROVE RequestInv'
    BY <1>1, <1>a DEF CheckStock, GoTo
<1>2. ASSUME NEW o \in Orders, Reserve(o) PROVE RequestInv'
    BY <1>2, <1>a DEF Reserve, DecrementStock, UpdateStatus, GoTo
<1>3. ASSUME NEW o \in Orders, ReserveRefused(o) PROVE RequestInv'
    BY <1>3, <1>a DEF ReserveRefused, GoTo
<1>4. ASSUME NEW o \in Orders, OpenSession(o) PROVE RequestInv'
    BY <1>4, <1>a DEF OpenSession, GoTo
<1>5. ASSUME NEW o \in Orders, SaveSession(o) PROVE RequestInv'
    BY <1>5, <1>a DEF SaveSession, GoTo
<1>6. ASSUME NEW o \in Orders, HandlerFails(o) PROVE RequestInv'
    BY <1>6, <1>a DEF HandlerFails, GoTo
<1>7. ASSUME NEW o \in Orders, ReturnStock(o) PROVE RequestInv'
    BY <1>7, <1>a DEF ReturnStock, GoTo
<1>8. ASSUME NEW o \in Orders, MarkFailed(o) PROVE RequestInv'
    BY <1>8, <1>a DEF MarkFailed, UpdateStatus, GoTo
<1>9. ASSUME NEW o \in Orders, Pay(o) PROVE RequestInv'
    BY <1>9, <1>a DEF Pay
<1>10. ASSUME NEW j \in Jobs, DeliverWebhook(j) PROVE RequestInv'
    BY <1>10, <1>a DEF DeliverWebhook
<1>11. ASSUME NEW j \in Jobs, TakeJob(j) PROVE RequestInv'
    BY <1>11, <1>a DEF TakeJob
<1>12. ASSUME NEW found, FindOrderAs(found) PROVE RequestInv'
    BY <1>12, <1>a DEF FindOrderAs, JobDone, QueueInv
<1>13. ASSUME MarkPaid PROVE RequestInv'
    BY <1>13, <1>a, <1>b DEF MarkPaid, UpdateStatus, QueueInv
<1>14. ASSUME NEW q \in Nat, EmitTicketsOf(q) PROVE RequestInv'
    BY <1>14, <1>a DEF EmitTicketsOf
<1>15. ASSUME FinishJob PROVE RequestInv'
    BY <1>15, <1>a DEF FinishJob, JobDone, QueueInv
<1>16. ASSUME JobFails PROVE RequestInv'
    BY <1>16, <1>a DEF JobFails, QueueInv
<1>17. ASSUME NEW o \in Orders, Age(o) PROVE RequestInv'
    BY <1>17, <1>a DEF Age
<1>18. ASSUME NEW s \in Sweeps, NEW candidates, ScanFrom(s, candidates) PROVE RequestInv'
    BY <1>18, <1>a DEF ScanFrom
<1>19. ASSUME NEW s \in Sweeps, NEW o \in Orders, NEW q, ExpireOrderOf(s, o, q)
       PROVE RequestInv'
    BY <1>19, <1>a DEF ExpireOrderOf, UpdateStatus
<1>20. ASSUME NEW s \in Sweeps, NEW o \in Orders, ExpireFails(s, o) PROVE RequestInv'
    BY <1>20, <1>a DEF ExpireFails
<1>21. ASSUME Crash PROVE RequestInv'
    <2>1. \A j \in Jobs : job'[j].state # "none" => job[j].state # "none"
        BY <1>21 DEF Crash, CrashJob
    <2> QED BY <2>1, <1>21, <1>a DEF Crash
<1>22. ASSUME UNCHANGED vars PROVE RequestInv'
    BY <1>22, <1>a DEF vars
<1> QED
    BY <1>1, <1>2, <1>3, <1>4, <1>5, <1>6, <1>7, <1>8, <1>9, <1>10, <1>11, <1>12,
       <1>13, <1>14, <1>15, <1>16, <1>17, <1>18, <1>19, <1>20, <1>21, <1>22
       DEF PipelineStep, HandlerStep, BlindStep

LEMMA NextStages ==
    TypeOK /\ QueueInv /\ StageInv /\ [Next]_vars => StageInv'
<1> SUFFICES ASSUME TypeOK, QueueInv, StageInv, [Next]_vars PROVE StageInv'
    OBVIOUS
<1>1. RequestInv'
    BY NextIsPipeline, StepRequests DEF StageInv
<1>2. ASSUME NEW o \in Orders, status'[o] = "PAID" PROVE req'[o] = "answered"
    <2>1. req[o] = "answered" => req'[o] = "answered"
        BY DEF TypeOK, Next, HandlerStep, BlindStep, CheckStock, Reserve, ReserveRefused,
               OpenSession, SaveSession, HandlerFails, ReturnStock, MarkFailed, GoTo, Pay,
               DeliverWebhook, TakeJob, FindOrder, FindOrderAs, MarkPaid, EmitTickets,
               EmitTicketsOf, FinishJob, JobFails, Age, ScanPending, ScanFrom, ExpireOrder,
               ExpireOrderOf, ExpireFails, Crash, InFlight, vars
    <2>2. CASE status[o] = "PAID"
        BY <2>1, <2>2 DEF StageInv
    <2>3. CASE status[o] # "PAID"
        <3>1. MarkPaid /\ o = OrderOf(worker)
            BY <1>2, <2>3
               DEF TypeOK, Next, HandlerStep, BlindStep, CheckStock, Reserve, ReserveRefused,
                   OpenSession, SaveSession, HandlerFails, ReturnStock, MarkFailed, Pay,
                   DeliverWebhook, TakeJob, FindOrder, FindOrderAs, MarkPaid, EmitTickets,
                   EmitTicketsOf, FinishJob, JobFails, Age, ScanPending, ScanFrom, ExpireOrder,
                   ExpireOrderOf, ExpireFails, Crash, UpdateStatus, vars
        <3>2. req[o] = "answered"
            BY <3>1 DEF MarkPaid, TypeOK, QueueInv, StageInv, RequestInv, Jobs
        <3> QED BY <2>1, <3>2
    <2> QED BY <2>2, <2>3
<1> QED BY <1>1, <1>2 DEF StageInv

LEMMA StagesInvariant == Spec => [](TypeOK /\ QueueInv /\ StageInv)
<1>1. Init => StageInv
    BY DEF Init, StageInv, RequestInv, OrderOf, Jobs
<1> QED BY <1>1, InitTypes, NextTypes, NextStages, PTL DEF Spec

\* No step takes an order out of PAID: the expiration is guarded, and the
\* compensation only reaches orders whose request was never answered.
LEMMA NextKeepsPaid ==
    ASSUME TypeOK, QueueInv, StageInv, [Next]_vars, NEW o \in Orders, status[o] = "PAID"
    PROVE  status'[o] = "PAID"
<1> USE DEF TypeOK, StageInv, RequestInv
<1>1. ASSUME NEW p \in Orders, Reserve(p) PROVE status'[o] = "PAID"
    BY <1>1 DEF Reserve, UpdateStatus
<1>2. ASSUME NEW p \in Orders, MarkFailed(p) PROVE status'[o] = "PAID"
    BY <1>2 DEF MarkFailed, UpdateStatus
<1>3. ASSUME MarkPaid PROVE status'[o] = "PAID"
    BY <1>3 DEF MarkPaid, UpdateStatus, QueueInv, Jobs, OrderOf
<1>4. ASSUME NEW s \in Sweeps, NEW p \in Orders, ExpireOrder(s, p)
      PROVE  status'[o] = "PAID"
    BY <1>4 DEF ExpireOrder, ExpireOrderOf, UpdateStatus
<1>5. CASE UNCHANGED status
    BY <1>5
<1> QED
    BY <1>1, <1>2, <1>3, <1>4, <1>5
       DEF Next, HandlerStep, BlindStep, CheckStock, ReserveRefused, OpenSession,
           SaveSession, HandlerFails, ReturnStock, Pay, DeliverWebhook, TakeJob,
           FindOrder, FindOrderAs, EmitTickets, EmitTicketsOf, FinishJob, JobFails, Age,
           ScanPending, ScanFrom,
           ExpireFails, Crash, vars

\* A paid order stays paid, for any interleaving of sweeps, compensations,
\* retries and restarts.
THEOREM PaidStaysPaid == Spec => PaidIsFinal
<1>1. TypeOK /\ QueueInv /\ StageInv /\ [Next]_vars
      => [\A o \in Orders : status[o] = "PAID" => status'[o] = "PAID"]_vars
    BY NextKeepsPaid
<1> QED BY <1>1, StagesInvariant, PTL DEF Spec, PaidIsFinal

-----------------------------------------------------------------------------
(* Emission *)

LEMMA NextEmission ==
    TypeOK /\ QueueInv /\ StageInv /\ EmissionInv /\ [Next]_vars => EmissionInv'
<1> SUFFICES ASSUME TypeOK, QueueInv, StageInv, EmissionInv, [Next]_vars
             PROVE  EmissionInv'
    OBVIOUS
<1> USE DEF TypeOK, EmissionInv, TicketsOnce, OrderOf
<1>a. \A j \in Jobs : OrderOf(j) \in Orders
    BY DEF Jobs
<1>b. \A o \in Orders : status[o] = "PAID" => status'[o] = "PAID"
    BY NextKeepsPaid
<1>c. step # "idle" => worker \in Jobs
    BY DEF QueueInv
<1>1. ASSUME NEW j \in Jobs, TakeJob(j) PROVE EmissionInv'
    BY <1>1 DEF TakeJob
<1>2. ASSUME FindOrder PROVE EmissionInv'
    BY <1>2, <1>a, <1>c DEF FindOrder, FindOrderAs, JobDone
<1>3. ASSUME MarkPaid PROVE EmissionInv'
    BY <1>3, <1>a, <1>b, <1>c DEF MarkPaid, UpdateStatus
<1>4. ASSUME EmitTickets PROVE EmissionInv'
    BY <1>4, <1>a, <1>c DEF EmitTickets, EmitTicketsOf
<1>5. ASSUME FinishJob PROVE EmissionInv'
    BY <1>5 DEF FinishJob, JobDone
<1>6. ASSUME JobFails PROVE EmissionInv'
    BY <1>6 DEF JobFails
<1>7. ASSUME Crash PROVE EmissionInv'
    BY <1>7 DEF Crash
<1>8. CASE UNCHANGED <<worker, step, tickets>>
    BY <1>8, <1>a, <1>b, <1>c
<1> QED
    BY <1>1, <1>2, <1>3, <1>4, <1>5, <1>6, <1>7, <1>8
       DEF Next, HandlerStep, BlindStep, CheckStock, Reserve, ReserveRefused,
           OpenSession, SaveSession, HandlerFails, ReturnStock, MarkFailed, Pay,
           DeliverWebhook, Age, ScanPending, ScanFrom, ExpireOrder, ExpireOrderOf, ExpireFails, vars

LEMMA EmissionInvariant == Spec => [](TypeOK /\ QueueInv /\ StageInv /\ EmissionInv)
<1>1. Init => EmissionInv
    BY DEF Init, EmissionInv, TicketsOnce
<1> QED BY <1>1, StagesInvariant, NextEmission, PTL DEF Spec

\* However often a payment is reported, a job retried or put back after a
\* restart, an order's tickets are emitted once, all of them, after its payment.
THEOREM TicketsEmittedOnce == Spec => []TicketsOnce
<1>1. EmissionInv => TicketsOnce
    BY DEF EmissionInv
<1> QED BY <1>1, EmissionInvariant, PTL

-----------------------------------------------------------------------------
(* Stock *)

LEMMA NextStock ==
    TypeOK /\ QueueInv /\ StageInv /\ StockNotLost /\ [Next]_vars => StockNotLost'
<1> SUFFICES ASSUME TypeOK, QueueInv, StageInv, StockNotLost, [Next]_vars
             PROVE  StockNotLost'
    OBVIOUS
<1> USE DEF TypeOK, StageInv, RequestInv
<1>a. Holding \in SUBSET Orders /\ Holding' \in SUBSET Orders
    BY DEF Holding
<1>q. \A S \in SUBSET Orders : IsFiniteSet(S) /\ \A o \in S : Qty[o] \in Nat
    BY OrdersAssumption, FS_Subset
<1>b. Units(Holding, Qty) \in Nat /\ Units(Holding', Qty) \in Nat
    BY <1>a, <1>q, UnitsMonotone
<1>keep. ASSUME avail' = avail, Holding \subseteq Holding' PROVE StockNotLost'
    <2>1. Units(Holding, Qty) <= Units(Holding', Qty)
        BY <1>keep, <1>a, <1>q, UnitsMonotone
    <2> QED BY <2>1, <1>keep, <1>b DEF StockNotLost
<1>give. ASSUME NEW o \in Orders, avail' = avail + Qty[o], Holding \ {o} \subseteq Holding'
         PROVE  StockNotLost'
    <2>1. Units(Holding, Qty) <= Units(Holding \ {o}, Qty) + Qty[o]
        BY <1>a, <1>q, UnitsRemove
    <2>2. Units(Holding \ {o}, Qty) \in Nat /\ Units(Holding \ {o}, Qty) <= Units(Holding', Qty)
        BY <1>give, <1>a, <1>q, UnitsMonotone
    <2> QED BY <2>1, <2>2, <1>give, <1>b DEF StockNotLost
<1>1. ASSUME NEW o \in Orders, Reserve(o) PROVE StockNotLost'
    <2>1. avail' = avail - Qty[o]
        BY <1>1 DEF Reserve, DecrementStock
    <2>2. o \notin Holding /\ Holding' = Holding \union {o}
        BY <1>1 DEF Reserve, UpdateStatus, GoTo, Holding, Returning
    <2>3. Units(Holding \union {o}, Qty) = Units(Holding, Qty) + Qty[o]
        <3>1. IsFiniteSet(Holding) /\ (\A p \in Holding : Qty[p] \in Nat) /\ Qty[o] \in Nat
            BY <1>a, <1>q
        <3> QED BY <3>1, <2>2, UnitsAdd
    <2> QED BY <2>1, <2>2, <2>3, <1>b DEF StockNotLost
<1>2. ASSUME NEW o \in Orders, ReturnStock(o) PROVE StockNotLost'
    <2>1. avail' = avail + Qty[o]
        BY <1>2 DEF ReturnStock, IncrementStock
    <2>2. Holding \ {o} \subseteq Holding'
        BY <1>2 DEF ReturnStock, GoTo, Holding, Returning
    <2> QED BY <2>1, <2>2, <1>give
<1>3. ASSUME NEW s \in Sweeps, NEW o \in Orders, ExpireOrder(s, o) PROVE StockNotLost'
    <2>1. CASE status[o] = "PENDING"
        <3>1. avail' = avail + Qty[o]
            BY <1>3, <2>1 DEF ExpireOrder, ExpireOrderOf, IncrementStock
        <3>2. Holding \ {o} \subseteq Holding'
            BY <1>3, <2>1 DEF ExpireOrder, ExpireOrderOf, UpdateStatus, Holding, Returning
        <3> QED BY <3>1, <3>2, <1>give
    <2>2. CASE status[o] # "PENDING"
        BY <1>3, <2>2, <1>keep DEF ExpireOrder, ExpireOrderOf, Holding, Returning
    <2> QED BY <2>1, <2>2
<1>4. ASSUME NEW o \in Orders, CheckStock(o) PROVE StockNotLost'
    BY <1>4, <1>keep DEF CheckStock, GoTo, Holding, Returning
<1>5. ASSUME NEW o \in Orders, ReserveRefused(o) PROVE StockNotLost'
    BY <1>5, <1>keep DEF ReserveRefused, GoTo, Holding, Returning
<1>6. ASSUME NEW o \in Orders, OpenSession(o) PROVE StockNotLost'
    BY <1>6, <1>keep DEF OpenSession, GoTo, Holding, Returning
<1>7. ASSUME NEW o \in Orders, SaveSession(o) PROVE StockNotLost'
    BY <1>7, <1>keep DEF SaveSession, GoTo, Holding, Returning
<1>8. ASSUME NEW o \in Orders, HandlerFails(o) PROVE StockNotLost'
    BY <1>8, <1>keep DEF HandlerFails, GoTo, Holding, Returning
<1>9. ASSUME NEW o \in Orders, MarkFailed(o) PROVE StockNotLost'
    BY <1>9, <1>keep DEF MarkFailed, UpdateStatus, GoTo, Holding, Returning
<1>10. ASSUME MarkPaid PROVE StockNotLost'
    BY <1>10, <1>keep DEF MarkPaid, UpdateStatus, QueueInv, Jobs, OrderOf, Holding, Returning
<1>11. ASSUME Crash PROVE StockNotLost'
    BY <1>11, <1>keep DEF Crash, Holding, Returning
<1>12. CASE UNCHANGED <<avail, status, req>>
    BY <1>12, <1>keep DEF Holding, Returning
<1> QED
    BY <1>1, <1>2, <1>3, <1>4, <1>5, <1>6, <1>7, <1>8, <1>9, <1>10, <1>11, <1>12
       DEF Next, HandlerStep, BlindStep, Pay, DeliverWebhook, TakeJob, FindOrder,
           FindOrderAs, EmitTickets, EmitTicketsOf, FinishJob, JobFails, Age, ScanPending, ScanFrom,
           ExpireFails, vars

\* Free and held seats never add up to less than the lot, whatever fails or
\* restarts half way: the pipeline may give seats back twice, it never loses one.
THEOREM StockIsNeverLost == Spec => []StockNotLost
<1>1. Init => StockNotLost
    <2>1. ASSUME Init PROVE Units(Holding, Qty) \in Nat /\ avail = Total
        BY <2>1, OrdersAssumption, FS_Subset, UnitsMonotone DEF Init, Holding
    <2> QED BY <2>1 DEF StockNotLost
<1> QED BY <1>1, StagesInvariant, NextStock, PTL DEF Spec

-----------------------------------------------------------------------------
(* Where a surplus comes from *)

\* Every step but the two kinds named leaves the sum of free and held seats as it is,
\* and each of those raises it.
LEMMA NextSurplus ==
    ASSUME TypeOK, QueueInv, StageInv, [Next]_vars
    PROVE  /\ Surplus' >= Surplus
           /\ Surplus' > Surplus <=> LatePayment \/ ReturnedTwice
<1> DEFINE Explained == /\ Surplus' >= Surplus
                        /\ Surplus' > Surplus <=> LatePayment \/ ReturnedTwice
           Twice == LatePayment \/ ReturnedTwice
<1>a. Holding \in SUBSET Orders /\ Holding' \in SUBSET Orders
    BY DEF Holding
<1>q. \A S \in SUBSET Orders : IsFiniteSet(S) /\ \A o \in S : Qty[o] \in Nat
    BY OrdersAssumption, FS_Subset
<1>b. /\ avail \in Nat /\ Units(Holding, Qty) \in Nat /\ Units(Holding', Qty) \in Nat
      /\ \A o \in Orders : Qty[o] \in Nat /\ Qty[o] > 0
    <2>1. Units(Holding, Qty) \in Nat /\ Units(Holding', Qty) \in Nat
        BY <1>a, <1>q, UnitsMonotone
    <2>2. \A o \in Orders : Qty[o] \in Nat /\ Qty[o] > 0
        OBVIOUS
    <2> QED BY <2>1, <2>2 DEF TypeOK
<1>t. /\ status \in [Orders -> OrderStatus \union {"NONE"}]
      /\ req \in [Orders -> HandlerStates]
      /\ \A o \in Orders : /\ status[o] = "PAID" => req[o] = "answered"
                           /\ req[o] \in {"new", "checked", "refused"} => status[o] = "NONE"
                           /\ status[o] = "NONE" => req[o] \in {"new", "checked", "refused", "lost"}
    BY DEF TypeOK, StageInv, RequestInv
<1>quiet. ASSUME \A o \in Orders :
                     /\ status'[o] = "PAID" => status[o] \in {"PENDING", "PAID"}
                     /\ req[o] = "undoing" => req'[o] # "returned"
                     /\ req[o] = "returned" /\ status[o] = "PENDING" =>
                           IF status'[o] = "PENDING" THEN req'[o] = "returned"
                           ELSE status'[o] # "EXPIRED"
          PROVE  ~Twice
    BY <1>quiet, <1>t DEF LatePayment, ReturnedTwice, Returning, ReturnStock, GoTo
<1>same. ASSUME avail' = avail, Holding' = Holding, ~Twice PROVE Explained
    BY <1>same, <1>b DEF Surplus
<1>moves. ASSUME NEW o \in Orders, o \in Holding, Holding' = Holding \ {o},
                 avail' = avail + Qty[o], ~Twice
          PROVE  Explained
    <2> DEFINE H == Holding \ {o}
    <2>1. IsFiniteSet(H) /\ (\A p \in H : Qty[p] \in Nat) /\ o \notin H
        BY <1>a, <1>q
    <2>2. Units(H \union {o}, Qty) = Units(H, Qty) + Qty[o] /\ H \union {o} = Holding
        <3>1. H \union {o} = Holding
            BY <1>moves
        <3> HIDE DEF H
        <3> QED BY <2>1, <3>1, <1>b, UnitsAdd
    <2>3. H = Holding'
        BY <1>moves
    <2>4. Units(Holding, Qty) = Units(Holding', Qty) + Qty[o]
        BY <2>2, <2>3
    <2> HIDE DEF H
    <2>5. Surplus' = Surplus
        BY <1>moves, <1>b, <2>4 DEF Surplus
    <2>6. Surplus \in Int
        BY <1>b DEF Surplus
    <2> QED BY <1>moves, <2>5, <2>6
<1>twice. ASSUME NEW o \in Orders, Holding' = Holding, avail' = avail + Qty[o], Twice
          PROVE  Explained
    BY <1>twice, <1>b DEF Surplus
<1>joins. ASSUME NEW o \in Orders, o \notin Holding, Holding \union {o} \subseteq Holding',
                 avail' = avail, Twice
          PROVE  Explained
    <2>1. IsFiniteSet(Holding) /\ (\A p \in Holding : Qty[p] \in Nat)
        BY <1>a, <1>q
    <2>2. Units(Holding \union {o}, Qty) = Units(Holding, Qty) + Qty[o]
        BY <2>1, <1>b, <1>joins, UnitsAdd
    <2>3. Units(Holding \union {o}, Qty) <= Units(Holding', Qty)
        BY <1>joins, <1>a, <1>q, UnitsMonotone
    <2> QED BY <1>joins, <1>b, <2>2, <2>3 DEF Surplus
<1>1. ASSUME NEW o \in Orders, Reserve(o) PROVE Explained
    <2>1. avail' = avail - Qty[o] /\ o \notin Holding /\ Holding' = Holding \union {o}
        BY <1>1, <1>t DEF Reserve, DecrementStock, UpdateStatus, GoTo, Holding, Returning
    <2>2. IsFiniteSet(Holding) /\ (\A p \in Holding : Qty[p] \in Nat)
        BY <1>a, <1>q
    <2>3. Units(Holding \union {o}, Qty) = Units(Holding, Qty) + Qty[o]
        BY <2>1, <2>2, <1>b, UnitsAdd
    <2>4. ~Twice
        BY <1>1, <1>t, <1>quiet DEF Reserve, UpdateStatus, GoTo
    <2> QED BY <2>1, <2>3, <2>4, <1>b DEF Surplus
<1>2. ASSUME NEW o \in Orders, ReturnStock(o) PROVE Explained
    <2>1. /\ avail' = avail + Qty[o] /\ status' = status
          /\ req[o] = "undoing" /\ req' = [req EXCEPT ![o] = "returned"]
        BY <1>2 DEF ReturnStock, IncrementStock, GoTo
    <2>2. CASE status[o] = "PENDING"
        <3>1. o \in Holding /\ Holding' = Holding \ {o}
            BY <2>1, <2>2, <1>t DEF Holding, Returning
        <3>2. ~LatePayment
            BY <2>1, <1>t DEF LatePayment
        <3>3. ~ReturnedTwice
            <4>1. \A p \in Orders \ {o} : req'[p] = req[p]
                BY <2>1, <1>t
            <4> QED BY <2>1, <2>2, <4>1, <1>t DEF ReturnedTwice, Returning, ReturnStock, GoTo
        <3> QED BY <2>1, <3>1, <3>2, <3>3, <1>moves
    <2>3. CASE status[o] # "PENDING"
        <3>1. Holding' = Holding
            BY <2>1, <2>3, <1>t DEF Holding, Returning
        <3>2. ReturnedTwice
            BY <1>2, <2>3 DEF ReturnedTwice
        <3> QED BY <2>1, <3>1, <3>2, <1>twice
    <2> QED BY <2>2, <2>3
<1>3. ASSUME NEW o \in Orders, MarkFailed(o) PROVE Explained
    <2>1. Holding' = Holding /\ avail' = avail
        BY <1>3, <1>t DEF MarkFailed, UpdateStatus, GoTo, Holding, Returning
    <2>2. ~Twice
        BY <1>3, <1>t, <1>quiet DEF MarkFailed, UpdateStatus, GoTo
    <2> QED BY <2>1, <2>2, <1>same
<1>4. ASSUME NEW o \in Orders, HandlerFails(o) PROVE Explained
    <2>1. avail' = avail /\ status' = status
        BY <1>4 DEF HandlerFails
    <2>2. CASE o \in Returning /\ status[o] = "PENDING"
        <3>1. ReturnedTwice
            BY <1>4, <2>1, <2>2, <1>t DEF ReturnedTwice, HandlerFails, GoTo, Returning
        <3>2. o \notin Holding /\ Holding \union {o} \subseteq Holding'
            BY <1>4, <2>1, <2>2, <1>t DEF HandlerFails, GoTo, Holding, Returning
        <3> QED BY <2>1, <3>1, <3>2, <1>joins
    <2>3. CASE ~(o \in Returning /\ status[o] = "PENDING")
        <3>1. ~Twice
            BY <1>4, <2>1, <2>3, <1>t, <1>quiet DEF HandlerFails, GoTo, Returning
        <3>2. Holding' = Holding
            BY <1>4, <2>1, <2>3, <1>t DEF HandlerFails, GoTo, Holding, Returning
        <3> QED BY <2>1, <3>1, <3>2, <1>same
    <2> QED BY <2>2, <2>3
<1>5. ASSUME MarkPaid PROVE Explained
    <2> PICK o \in Orders : o = OrderOf(worker)
        BY <1>5 DEF MarkPaid, TypeOK, QueueInv, Jobs, OrderOf
    <2>1. avail' = avail /\ req' = req /\ status' = [status EXCEPT ![o] = "PAID"]
        BY <1>5 DEF MarkPaid, UpdateStatus
    <2>2. req[o] = "answered"
        BY <1>5 DEF MarkPaid, TypeOK, QueueInv, StageInv, RequestInv, Jobs, OrderOf
    <2>3. CASE status[o] \in {"PENDING", "PAID"}
        <3>1. ~Twice
            BY <2>1, <2>2, <2>3, <1>t, <1>quiet
        <3>2. Holding' = Holding
            BY <2>1, <2>2, <2>3, <1>t DEF Holding, Returning
        <3> QED BY <2>1, <3>1, <3>2, <1>same
    <2>4. CASE status[o] \notin {"PENDING", "PAID"}
        <3>1. LatePayment
            BY <2>1, <2>4, <1>t DEF LatePayment
        <3>2. o \notin Holding /\ Holding \union {o} \subseteq Holding'
            BY <2>1, <2>2, <2>4, <1>t DEF Holding, Returning
        <3> QED BY <2>1, <3>1, <3>2, <1>joins
    <2> QED BY <2>3, <2>4
<1>6. ASSUME NEW s \in Sweeps, NEW o \in Orders, ExpireOrder(s, o) PROVE Explained
    <2>1. req' = req
        BY <1>6 DEF ExpireOrder, ExpireOrderOf
    <2>2. CASE status[o] # "PENDING"
        <3>1. avail' = avail /\ status' = status
            BY <1>6, <2>2 DEF ExpireOrder, ExpireOrderOf
        <3>2. ~Twice
            BY <2>1, <3>1, <1>t, <1>quiet
        <3> QED BY <2>1, <3>1, <3>2, <1>same DEF Holding, Returning
    <2>3. CASE status[o] = "PENDING"
        <3>1. avail' = avail + Qty[o] /\ status' = [status EXCEPT ![o] = "EXPIRED"]
            BY <1>6, <2>3 DEF ExpireOrder, ExpireOrderOf, UpdateStatus, IncrementStock
        <3>2. CASE o \in Returning
            <4>1. ReturnedTwice
                BY <2>1, <2>3, <3>1, <3>2, <1>t DEF ReturnedTwice
            <4>2. Holding' = Holding
                BY <2>1, <2>3, <3>1, <3>2, <1>t DEF Holding, Returning
            <4> QED BY <3>1, <4>1, <4>2, <1>twice
        <3>3. CASE o \notin Returning
            <4>1. ~Twice
                BY <2>1, <3>1, <3>3, <1>t, <1>quiet DEF Returning
            <4>2. o \in Holding /\ Holding' = Holding \ {o}
                BY <2>1, <2>3, <3>1, <3>3, <1>t DEF Holding, Returning
            <4> QED BY <3>1, <4>1, <4>2, <1>moves
        <3> QED BY <3>2, <3>3
    <2> QED BY <2>2, <2>3
<1>7. ASSUME Crash PROVE Explained
    <2>1. /\ avail' = avail /\ status' = status
          /\ req' = [o \in Orders |-> IF req[o] \in InFlight THEN "lost" ELSE req[o]]
        BY <1>7 DEF Crash
    <2>2. ASSUME NEW o \in Returning, status[o] = "PENDING" PROVE Explained
        <3>1. ReturnedTwice
            BY <2>1, <2>2 DEF ReturnedTwice, Returning, InFlight
        <3>2. o \in Orders /\ o \notin Holding /\ Holding \union {o} \subseteq Holding'
            BY <2>1, <2>2 DEF Holding, Returning, InFlight
        <3> QED BY <2>1, <3>1, <3>2, <1>joins
    <2>3. ASSUME \A o \in Returning : status[o] # "PENDING" PROVE Explained
        <3>1. ~Twice
            BY <2>1, <2>3, <1>t, <1>quiet DEF Returning, InFlight
        <3>2. Holding' = Holding
            BY <2>1, <2>3, <1>t DEF Holding, Returning, InFlight
        <3> QED BY <2>1, <3>1, <3>2, <1>same
    <2> QED BY <2>2, <2>3
<1>8. ASSUME NEW o \in Orders, CheckStock(o) \/ ReserveRefused(o) \/ OpenSession(o) \/ SaveSession(o)
      PROVE  Explained
    <2>1. /\ avail' = avail /\ status' = status
          /\ req[o] \notin {"undoing", "returned"}
          /\ \E at \in {"refused", "checked", "opened", "answered"} :
                req' = [req EXCEPT ![o] = at]
        BY <1>8 DEF CheckStock, ReserveRefused, OpenSession, SaveSession, GoTo
    <2>2. ~Twice
        BY <2>1, <1>t, <1>quiet
    <2>3. Holding' = Holding
        BY <2>1, <1>t DEF Holding, Returning
    <2> QED BY <2>1, <2>2, <2>3, <1>same
<1>9. ASSUME UNCHANGED <<avail, status, req>> PROVE Explained
    <2>1. ~Twice
        BY <1>9, <1>t, <1>quiet
    <2> QED BY <1>9, <2>1, <1>same DEF Holding, Returning
<1> HIDE DEF Explained, Twice
<1>10. \/ UNCHANGED <<avail, status, req>>
       \/ \E o \in Orders :
             \/ Reserve(o) \/ ReturnStock(o) \/ MarkFailed(o) \/ HandlerFails(o)
             \/ CheckStock(o) \/ ReserveRefused(o) \/ OpenSession(o) \/ SaveSession(o)
       \/ MarkPaid \/ Crash
       \/ \E s \in Sweeps, o \in Orders : ExpireOrder(s, o)
    BY DEF Next, HandlerStep, BlindStep, Pay, DeliverWebhook, TakeJob, FindOrder,
           FindOrderAs, EmitTickets, EmitTicketsOf, FinishJob, JobFails, Age, ScanPending, ScanFrom,
           ExpireFails, vars
<1>11. Explained
    BY <1>1, <1>2, <1>3, <1>4, <1>5, <1>6, <1>7, <1>8, <1>9, <1>10
<1> QED BY <1>11 DEF Explained

\* What is sold is at most the lot and the surplus; without one nothing is oversold.
LEMMA SoldWithinSurplus ==
    ASSUME TypeOK, StageInv
    PROVE  /\ Units(Sold, Qty) \in Nat /\ Surplus \in Int
           /\ Units(Sold, Qty) <= Total + Surplus
<1>1. /\ Holding \in SUBSET Orders /\ Sold \in SUBSET Holding
    BY DEF Holding, Sold, Returning, StageInv
<1>2. IsFiniteSet(Holding) /\ \A o \in Holding : Qty[o] \in Nat
    BY <1>1, OrdersAssumption, FS_Subset
<1>3. /\ Units(Sold, Qty) \in Nat /\ Units(Holding, Qty) \in Nat
      /\ Units(Sold, Qty) <= Units(Holding, Qty)
    BY <1>1, <1>2, UnitsMonotone
<1> QED BY <1>3 DEF TypeOK, Surplus

LEMMA InitSurplus == Init => Surplus = 0
<1> SUFFICES ASSUME Init PROVE Surplus = 0
    OBVIOUS
<1>1. Holding = {}
    BY DEF Init, Holding
<1>2. Units(Holding, Qty) = 0
    BY <1>1, UnitsEmpty
<1> QED BY <1>2 DEF Init, Surplus

\* Free and held seats exceed the lot by what late payments and half-done or doubled
\* compensations have added, and by nothing else, for any number of requests, sweeps,
\* failures and restarts.
THEOREM OnlyTheseMakeASurplus == Spec => SurplusExplained
<1>1. TypeOK /\ QueueInv /\ StageInv /\ [Next]_vars
      => [/\ Surplus' >= Surplus
          /\ Surplus' > Surplus <=> LatePayment \/ ReturnedTwice]_vars
    BY NextSurplus
<1> QED BY <1>1, StagesInvariant, PTL DEF Spec, SurplusExplained

\* What a repair has to achieve, and that it is enough: if no payment arrives late and
\* no compensation returns seats twice, the lot is never sold beyond its size.
THEOREM NotOversoldWithoutThese ==
    Spec /\ [][~LatePayment /\ ~ReturnedTwice]_vars => []NeverOversold
<1> DEFINE Exact == Surplus = 0
<1>1. Init => Exact
    BY InitSurplus
<1>2. TypeOK /\ QueueInv /\ StageInv /\ Exact /\ [Next]_vars
      /\ [~LatePayment /\ ~ReturnedTwice]_vars => Exact'
    <2> SUFFICES ASSUME TypeOK, QueueInv, StageInv, Exact, [Next]_vars,
                        [~LatePayment /\ ~ReturnedTwice]_vars
                 PROVE  Exact'
        OBVIOUS
    <2>1. CASE UNCHANGED vars
        BY <2>1 DEF vars, Surplus, Holding, Returning
    <2>2. CASE ~LatePayment /\ ~ReturnedTwice
        <3>1. Surplus' >= Surplus /\ ~(Surplus' > Surplus)
            BY <2>2, NextSurplus
        <3>2. Surplus' \in Int
            <4>1. Holding' \in SUBSET Orders
                BY DEF Holding
            <4>2. IsFiniteSet(Holding') /\ \A o \in Holding' : Qty[o] \in Nat
                BY <4>1, OrdersAssumption, FS_Subset
            <4>3. Units(Holding', Qty) \in Nat
                BY <4>2, UnitsMonotone
            <4>4. avail' \in Nat
                BY NextTypes DEF TypeOK
            <4> QED BY <4>3, <4>4 DEF Surplus
        <3> QED BY <3>1, <3>2
    <2> QED BY <2>1, <2>2
<1>3. TypeOK /\ StageInv /\ Exact => NeverOversold
    BY SoldWithinSurplus DEF NeverOversold
<1> HIDE DEF Exact
<1> QED BY <1>1, <1>2, <1>3, StagesInvariant, PTL DEF Spec

-----------------------------------------------------------------------------
(* Emissions that are lost *)

\* Between its read and its write the worker's order is not PAID: only the worker
\* itself marks orders so.
PayInv == step = "pay" => status[OrderOf(worker)] # "PAID"

LEMMA NextPay == TypeOK /\ QueueInv /\ PayInv /\ [Next]_vars => PayInv'
<1> SUFFICES ASSUME TypeOK, QueueInv, PayInv, [Next]_vars PROVE PayInv'
    OBVIOUS
<1> USE DEF TypeOK, PayInv
<1>1. ASSUME FindOrder PROVE PayInv'
    BY <1>1 DEF FindOrder, FindOrderAs, JobDone
<1>2. ASSUME step' = "pay" /\ step = "pay" PROVE worker' = worker
    BY <1>2 DEF Next, HandlerStep, BlindStep, CheckStock, Reserve, ReserveRefused, OpenSession,
           SaveSession, HandlerFails, ReturnStock, MarkFailed, Pay, DeliverWebhook, TakeJob,
           FindOrder, FindOrderAs, MarkPaid, EmitTickets, EmitTicketsOf, FinishJob, JobFails, Age,
           ScanPending, ScanFrom, ExpireOrder, ExpireOrderOf, ExpireFails, Crash, vars
<1>3. ASSUME ~FindOrder, step' = "pay" PROVE step = "pay" /\ ~MarkPaid
    BY <1>3 DEF Next, HandlerStep, BlindStep, CheckStock, Reserve, ReserveRefused, OpenSession,
           SaveSession, HandlerFails, ReturnStock, MarkFailed, Pay, DeliverWebhook, TakeJob,
           MarkPaid, EmitTickets, EmitTicketsOf, FinishJob, JobDone, JobFails, Age,
           ScanPending, ScanFrom, ExpireOrder, ExpireOrderOf, ExpireFails, Crash, vars
<1>4. ASSUME ~MarkPaid, NEW o \in Orders, status[o] # "PAID" PROVE status'[o] # "PAID"
    BY <1>4 DEF Next, HandlerStep, BlindStep, CheckStock, Reserve, ReserveRefused, OpenSession,
           SaveSession, HandlerFails, ReturnStock, MarkFailed, Pay, DeliverWebhook, TakeJob,
           FindOrder, FindOrderAs, EmitTickets, EmitTicketsOf, FinishJob, JobFails, Age,
           ScanPending, ScanFrom, ExpireOrder, ExpireOrderOf, ExpireFails, Crash, UpdateStatus, vars
<1>5. ASSUME ~FindOrder PROVE PayInv'
    <2>1. worker # NoJob => OrderOf(worker) \in Orders
        BY DEF Jobs, OrderOf
    <2> QED BY <1>2, <1>3, <1>4, <1>5, <2>1 DEF QueueInv
<1> QED BY <1>1, <1>5

\* The tickets of an order are emitted by the step after its payment or never.
LEMMA NextAbandons ==
    ASSUME TypeOK, QueueInv, StageInv, PayInv, [Next]_vars,
           NEW o \in Orders, Abandoned(o)
    PROVE  Abandoned(o)'
<1> USE DEF TypeOK, Abandoned
<1>1. status'[o] = "PAID"
    BY NextKeepsPaid
<1>2. step # "idle" => worker \in Jobs /\ OrderOf(worker) \in Orders
    BY DEF QueueInv, Jobs, OrderOf
<1>3. tickets'[o] = 0
    <2>1. ASSUME EmitTickets PROVE tickets'[o] = 0
        BY <2>1, <1>2 DEF EmitTickets, EmitTicketsOf
    <2>2. ~EmitTickets => UNCHANGED tickets
        BY DEF Next, HandlerStep, BlindStep, CheckStock, Reserve, ReserveRefused, OpenSession,
               SaveSession, HandlerFails, ReturnStock, MarkFailed, Pay, DeliverWebhook, TakeJob,
               FindOrder, FindOrderAs, MarkPaid, FinishJob, JobFails, Age, ScanPending, ScanFrom,
               ExpireOrder, ExpireOrderOf, ExpireFails, Crash, vars
    <2> QED BY <2>1, <2>2
<1>4. ~(step' = "emit" /\ OrderOf(worker') = o)
    <2>1. ASSUME MarkPaid PROVE OrderOf(worker') # o
        BY <2>1 DEF MarkPaid, PayInv
    <2>2. ASSUME ~MarkPaid, step' = "emit" PROVE step = "emit" /\ worker' = worker
        BY <2>2 DEF Next, HandlerStep, BlindStep, CheckStock, Reserve, ReserveRefused, OpenSession,
               SaveSession, HandlerFails, ReturnStock, MarkFailed, Pay, DeliverWebhook, TakeJob,
               FindOrder, FindOrderAs, EmitTickets, EmitTicketsOf, FinishJob, JobDone, JobFails,
               Age, ScanPending, ScanFrom, ExpireOrder, ExpireOrderOf, ExpireFails, Crash, vars
    <2> QED BY <2>1, <2>2
<1> QED BY <1>1, <1>3, <1>4 DEF OrderOf

\* What a job has failed or stalled stays on record.
LEMMA NextRecords ==
    ASSUME TypeOK, QueueInv, [Next]_vars, NEW j \in Jobs
    PROVE  /\ job[j].tries > 0 => job'[j].tries > 0
           /\ job[j].stalled => job'[j].stalled
<1> USE DEF TypeOK
<1>1. ASSUME DeliverWebhook(j) \/ TakeJob(j) PROVE job'[j].tries = job[j].tries
                                                  /\ job'[j].stalled = job[j].stalled
    BY <1>1 DEF DeliverWebhook, TakeJob
<1>2. ASSUME job' = [job EXCEPT ![worker].state = "completed"], worker \in Jobs
      PROVE  job'[j].tries = job[j].tries /\ job'[j].stalled = job[j].stalled
    BY <1>2
<1>3. ASSUME JobFails
      PROVE  job'[j].tries >= job[j].tries /\ job'[j].stalled = job[j].stalled
    <2>1. worker \in Jobs
        BY <1>3 DEF JobFails, QueueInv
    <2> QED BY <1>3, <2>1 DEF JobFails
<1>4. ASSUME Crash
      PROVE  job'[j].tries = job[j].tries /\ (job[j].stalled => job'[j].stalled)
    <2>1. CASE job[j].state # "active"
        BY <1>4, <2>1 DEF Crash, CrashJob
    <2>2. CASE job[j].state = "active"
        <3>1. PICK at \in JobStates :
                 job'[j] = [job[j] EXCEPT !.state = at, !.stalled = TRUE]
            <4>1. job'[j] = [job[j] EXCEPT
                              !.state = IF job[j].stalled THEN "failed" ELSE "waiting",
                              !.stalled = TRUE]
                BY <1>4, <2>2 DEF Crash, CrashJob
            <4> QED BY <4>1 DEF JobStates
        <3>2. job'[j].tries = job[j].tries /\ job'[j].stalled = TRUE
            BY <3>1
        <3> QED BY <3>2
    <2> QED BY <2>1, <2>2
<1>5. ASSUME NEW i \in Jobs, i # j, DeliverWebhook(i) \/ TakeJob(i) PROVE job'[j] = job[j]
    BY <1>5 DEF DeliverWebhook, TakeJob
<1>6. \/ UNCHANGED job
      \/ \E i \in Jobs : DeliverWebhook(i) \/ TakeJob(i)
      \/ job' = [job EXCEPT ![worker].state = "completed"] /\ worker \in Jobs
      \/ JobFails \/ Crash
    BY DEF Next, HandlerStep, BlindStep, CheckStock, Reserve, ReserveRefused, OpenSession,
           SaveSession, HandlerFails, ReturnStock, MarkFailed, Pay, FindOrder, FindOrderAs, JobDone,
           MarkPaid, EmitTickets, EmitTicketsOf, FinishJob, Age, ScanPending, ScanFrom,
           ExpireOrder, ExpireOrderOf, ExpireFails, QueueInv, vars
<1>7. job[j].tries \in Nat /\ job[j].stalled \in BOOLEAN /\ job'[j].tries \in Nat
    BY NextTypes
<1>8. CASE UNCHANGED job
    BY <1>8
<1>9. CASE \E i \in Jobs : DeliverWebhook(i) \/ TakeJob(i)
    <2> PICK i \in Jobs : DeliverWebhook(i) \/ TakeJob(i)
        BY <1>9
    <2>1. CASE i = j
        BY <2>1, <1>1
    <2>2. CASE i # j
        BY <2>2, <1>5
    <2> QED BY <2>1, <2>2
<1>10. CASE job' = [job EXCEPT ![worker].state = "completed"] /\ worker \in Jobs
    BY <1>10, <1>2
<1>11. CASE JobFails
    BY <1>11, <1>3, <1>7
<1>12. CASE Crash
    BY <1>12, <1>4
<1> QED BY <1>6, <1>8, <1>9, <1>10, <1>11, <1>12

LEMMA NextExplains ==
    TypeOK /\ QueueInv /\ StageInv /\ EmissionInv /\ AbandonedExplained /\ [Next]_vars
    => AbandonedExplained'
<1> SUFFICES ASSUME TypeOK, QueueInv, StageInv, EmissionInv, AbandonedExplained, [Next]_vars,
                    NEW o \in Orders, Abandoned(o)'
             PROVE  \E j \in Jobs : OrderOf(j) = o /\ (job'[j].tries > 0 \/ job'[j].stalled)
    BY DEF AbandonedExplained, OrderOf
<1> USE DEF TypeOK
<1>1. CASE Abandoned(o)
    <2> PICK j \in Jobs : OrderOf(j) = o /\ (job[j].tries > 0 \/ job[j].stalled)
        BY <1>1 DEF AbandonedExplained
    <2> QED BY NextRecords
<1>2. CASE ~Abandoned(o)
    <2>w. step # "idle" => worker \in Jobs /\ job[worker].state = "active"
        BY DEF QueueInv
    <2>1. CASE step = "emit" /\ OrderOf(worker) = o
        <3>1. CASE EmitTickets
            <4>1. tickets'[o] = tickets[o] + Qty[o]
                BY <2>1, <3>1 DEF EmitTickets, EmitTicketsOf
            <4> QED BY <4>1, <1>2 DEF Abandoned
        <3>2. CASE JobFails
            <4>1. job'[worker].tries = job[worker].tries + 1
                BY <3>2, <2>1, <2>w DEF JobFails
            <4>2. job[worker].tries \in Nat
                BY <2>1, <2>w
            <4> QED BY <4>1, <4>2, <2>1, <2>w
        <3>3. CASE Crash
            <4>1. CrashJob
                BY <3>3 DEF Crash
            <4>2. worker \in Jobs /\ job[worker].state = "active"
                BY <2>1, <2>w
            <4>3. job'[worker] = [job[worker] EXCEPT
                                    !.state = IF job[worker].stalled THEN "failed" ELSE "waiting",
                                    !.stalled = TRUE]
                BY <4>1, <4>2 DEF CrashJob
            <4>4. job[worker] \in [state : JobStates, tries : 0 .. MaxAttempts, stalled : BOOLEAN]
                BY <4>2
            <4>5. job'[worker].stalled = TRUE
                BY <4>3, <4>4
            <4> QED BY <4>5, <2>1, <2>w
        <3>4. CASE ~(EmitTickets \/ JobFails \/ Crash)
            <4>1. step' = step /\ worker' = worker
                BY <2>1, <3>4, <2>w
                   DEF Next, HandlerStep, BlindStep, CheckStock, Reserve, ReserveRefused, OpenSession,
                       SaveSession, HandlerFails, ReturnStock, MarkFailed, Pay, DeliverWebhook,
                       TakeJob, FindOrder, FindOrderAs, MarkPaid, FinishJob, Age, ScanPending,
                       ScanFrom, ExpireOrder, ExpireOrderOf, ExpireFails, QueueInv, vars
            <4> QED BY <4>1, <1>2, <2>1 DEF Abandoned, OrderOf
        <3> QED BY <3>1, <3>2, <3>3, <3>4
    <2>2. CASE ~(step = "emit" /\ OrderOf(worker) = o)
        <3>1. status[o] # "PAID" \/ tickets[o] # 0
            BY <1>2, <2>2 DEF Abandoned
        <3>2. tickets[o] # 0 => tickets'[o] # 0
            BY DEF Next, HandlerStep, BlindStep, CheckStock, Reserve, ReserveRefused, OpenSession,
                   SaveSession, HandlerFails, ReturnStock, MarkFailed, Pay, DeliverWebhook, TakeJob,
                   FindOrder, FindOrderAs, MarkPaid, EmitTickets, EmitTicketsOf, FinishJob, JobFails,
                   Age, ScanPending, ScanFrom, ExpireOrder, ExpireOrderOf, ExpireFails, Crash, vars
        <3>3. status[o] # "PAID" /\ status'[o] = "PAID" => MarkPaid /\ OrderOf(worker) = o
            BY DEF Next, HandlerStep, BlindStep, CheckStock, Reserve, ReserveRefused, OpenSession,
                   SaveSession, HandlerFails, ReturnStock, MarkFailed, Pay, DeliverWebhook, TakeJob,
                   FindOrder, FindOrderAs, MarkPaid, EmitTickets, EmitTicketsOf, FinishJob, JobFails,
                   Age, ScanPending, ScanFrom, ExpireOrder, ExpireOrderOf, ExpireFails, Crash,
                   UpdateStatus, vars
        <3>4. status'[o] = "PAID" /\ tickets'[o] = 0 /\ ~(step' = "emit" /\ OrderOf(worker') = o)
            BY DEF Abandoned, OrderOf
        <3>5. MarkPaid => step' = "emit" /\ worker' = worker
            BY DEF MarkPaid
        <3> QED BY <3>1, <3>2, <3>3, <3>4, <3>5
    <2> QED BY <2>1, <2>2
<1> QED BY <1>1, <1>2

LEMMA AbandonedInvariant ==
    Spec => []((TypeOK /\ QueueInv /\ StageInv) /\ PayInv /\ AbandonedExplained)
<1>1. Init => PayInv /\ AbandonedExplained
    BY DEF Init, PayInv, AbandonedExplained, Abandoned
<1> QED BY <1>1, EmissionInvariant, NextPay, NextExplains, PTL DEF Spec

\* An order whose tickets were not emitted by the step that follows its payment never
\* gets them: retries, duplicate webhooks and restarts find it PAID and ignore it.
THEOREM LostEmissionsStayLost == Spec => AbandonedForEver
<1>1. (TypeOK /\ QueueInv /\ StageInv) /\ PayInv /\ [Next]_vars
      => [\A o \in Orders : Abandoned(o) => Abandoned(o)']_vars
    BY NextAbandons
<1> QED BY <1>1, AbandonedInvariant, PTL DEF Spec, AbandonedForEver

\* Each lost emission is due to a failed attempt or a stall of one of the order's own
\* jobs: neither sweeps nor other orders nor duplicates bring one about.
THEOREM LostEmissionsHaveFailedJobs == Spec => []AbandonedExplained
BY AbandonedInvariant, PTL

\* So every paid order gets its tickets only if none is ever abandoned, even for a
\* moment: this is all a repair of the retry has to exclude.
THEOREM EmittedOnlyAtFirstAttempt ==
    ASSUME NEW o \in Orders
    PROVE  Spec /\ PaidEmitted => []~Abandoned(o)
<1>1. (TypeOK /\ QueueInv /\ StageInv) /\ PayInv /\ [Next]_vars
      => (Abandoned(o) => Abandoned(o)')
    BY NextAbandons DEF vars, Abandoned, OrderOf
<1>2. Abandoned(o) => status[o] = "PAID" /\ ~(tickets[o] = Qty[o])
    BY DEF Abandoned
<1>3. PaidEmitted => (status[o] = "PAID" ~> tickets[o] = Qty[o])
    BY DEF PaidEmitted
<1> QED BY <1>1, <1>2, <1>3, AbandonedInvariant, PTL DEF Spec

-----------------------------------------------------------------------------
(* Refinement *)

LEMMA InitSale == Init => Sale!Init
BY DEF Init, SalePhase, Sale!Init

LEMMA NextSale ==
    TypeOK /\ QueueInv /\ StageInv /\ EmissionInv /\ [Next]_vars
    => [Sale!Next]_(Sale!saleVars)
<1> SUFFICES ASSUME TypeOK, QueueInv, StageInv, EmissionInv, [Next]_vars
             PROVE  [Sale!Next]_(Sale!saleVars)
    OBVIOUS
<1> DEFINE SaleStep == [Sale!Next]_(Sale!saleVars)
<1>c. step # "idle" => worker \in Jobs /\ OrderOf(worker) \in Orders
    BY DEF TypeOK, QueueInv, Jobs, OrderOf
<1>1. ASSUME NEW o \in Orders, Reserve(o) PROVE SaleStep
    <2>1. Sale!Hold(o)
        BY <1>1 DEF TypeOK, StageInv, RequestInv, Reserve, UpdateStatus, SalePhase, Sale!Hold
    <2> QED BY <2>1 DEF Sale!Next
<1>2. ASSUME NEW o \in Orders, MarkFailed(o) PROVE SaleStep
    <2>1. Sale!Close(o) \/ UNCHANGED Sale!saleVars
        BY <1>2 DEF TypeOK, StageInv, RequestInv, OrderStatus, MarkFailed, UpdateStatus, SalePhase,
                    Sale!Close, Sale!saleVars
    <2> QED BY <2>1 DEF Sale!Next
<1>3. ASSUME MarkPaid PROVE SaleStep
    <2> PICK p \in Orders : p = OrderOf(worker)
        BY <1>3, <1>c DEF MarkPaid
    <2>1. status[p] # "NONE"
        BY <1>3, <1>c DEF TypeOK, MarkPaid, QueueInv, StageInv, RequestInv
    <2>2. status' = [status EXCEPT ![p] = "PAID"] /\ tickets' = tickets
        BY <1>3 DEF MarkPaid, UpdateStatus
    <2>3. Sale!Sell(p) \/ UNCHANGED Sale!saleVars
        BY <2>1, <2>2 DEF TypeOK, OrderStatus, SalePhase, Sale!Sell, Sale!saleVars
    <2> QED BY <2>3 DEF Sale!Next
<1>4. ASSUME EmitTickets PROVE SaleStep
    <2> PICK p \in Orders : p = OrderOf(worker)
        BY <1>4, <1>c DEF EmitTickets, EmitTicketsOf
    <2>1. status[p] = "PAID" /\ tickets[p] = 0 /\ Qty[p] > 0
        BY <1>4, <1>c DEF EmitTickets, EmitTicketsOf, EmissionInv
    <2>2. tickets' = [tickets EXCEPT ![p] = @ + Qty[p]] /\ status' = status
        BY <1>4 DEF EmitTickets, EmitTicketsOf
    <2>3. {o \in Orders : tickets'[o] > 0} = {o \in Orders : tickets[o] > 0} \union {p}
        BY <2>1, <2>2 DEF TypeOK
    <2>4. Sale!Deliver(p)
        BY <2>1, <2>2, <2>3 DEF TypeOK, SalePhase, Sale!Deliver
    <2> QED BY <2>4 DEF Sale!Next
<1>5. ASSUME NEW s \in Sweeps, NEW o \in Orders, ExpireOrder(s, o) PROVE SaleStep
    <2>1. CASE status[o] = "PENDING"
        <3>1. Sale!Close(o)
            BY <1>5, <2>1 DEF TypeOK, ExpireOrder, ExpireOrderOf, UpdateStatus, SalePhase, Sale!Close
        <3> QED BY <3>1 DEF Sale!Next
    <2>2. CASE status[o] # "PENDING"
        BY <1>5, <2>2 DEF ExpireOrder, ExpireOrderOf, Sale!saleVars
    <2> QED BY <2>1, <2>2
<1>6. CASE UNCHANGED <<status, tickets>>
    BY <1>6 DEF Sale!saleVars
<1>7. \/ UNCHANGED <<status, tickets>>
      \/ \E o \in Orders : Reserve(o) \/ MarkFailed(o)
      \/ MarkPaid \/ EmitTickets
      \/ \E s \in Sweeps, o \in Orders : ExpireOrder(s, o)
    BY DEF Next, HandlerStep, BlindStep, CheckStock, ReserveRefused,
           OpenSession, SaveSession, HandlerFails, ReturnStock, Pay,
           DeliverWebhook, TakeJob, FindOrder, FindOrderAs, FinishJob, JobFails, Age,
           ScanPending, ScanFrom, ExpireFails, Crash, vars
<1> QED BY <1>1, <1>2, <1>3, <1>4, <1>5, <1>6, <1>7

\* The pipeline implements the sale of OrderSale for every order: a sale is
\* final, and its tickets are handed out at most once and only after it.
THEOREM PipelineImplementsSale == Spec => ImplementsSale
BY InitSale, NextSale, EmissionInvariant, PTL DEF Spec, Sale!Spec, ImplementsSale

-----------------------------------------------------------------------------
(* PATCH and DELETE *)

USE DEF Open

LEMMA AmountType == AdminTypeOK => amount \in [Orders -> Nat]
BY DEF AdminTypeOK, amount

LEMMA AmountKept == UNCHANGED <<quantity, lot>> => amount' = amount
BY DEF amount

\* What a PATCH that goes on keeps of its read.
SameRead(p) ==
    /\ Open(p) /\ patch'[p].order = patch[p].order
    /\ patch'[p].seen = patch[p].seen /\ patch'[p].had = patch[p].had

\* A row that is not there yet will have the quantity of its request, and no sweep
\* has loaded it.
RowInv ==
    \A o \in Orders : status[o] = "NONE" =>
        /\ amount[o] = Qty[o]
        /\ \A s \in Sweeps : o \notin batch[s]

\* m[o] seats of the lot are those that order o took and nobody has given back: no
\* more than the row, and each of those who are about to give seats back, say.
Backed(m) ==
    /\ \A o \in Orders :
          /\ o \notin Holding => m[o] = 0
          /\ m[o] <= amount[o] /\ m[o] <= Qty[o]
          /\ \A s \in Sweeps : o \in batch[s] => m[o] <= loaded[s][o]
          /\ \A p \in Patches : Open(p) /\ patch[p].order = o =>
                IF patch[p].seen \in {"PENDING", "PAID"} THEN m[o] <= patch[p].had
                ELSE m[o] = 0
    /\ avail + Units(Orders, m) + shrunk >= Total

AdminInv ==
    /\ AdminTypeOK /\ QueueInv /\ RequestInv /\ RowInv
    /\ \E m \in [Orders -> Nat] : Backed(m)

\* A row that is inserted is inserted by its request, and none is taken away.
LEMMA StatusStays ==
    ASSUME TypeOK, QueueInv, RequestInv, [PipelineStep]_vars, NEW o \in Orders
    PROVE  /\ status[o] # "NONE" => status'[o] # "NONE"
           /\ status[o] = "NONE" /\ status'[o] # "NONE" => Reserve(o)
<1> USE DEF TypeOK
<1>1. ASSUME NEW u \in Orders, Reserve(u)
      PROVE  /\ status[o] # "NONE" => status'[o] # "NONE"
             /\ status[o] = "NONE" /\ status'[o] # "NONE" => Reserve(o)
    BY <1>1 DEF Reserve, UpdateStatus
<1>2. ASSUME NEW u \in Orders, MarkFailed(u)
      PROVE  /\ status[o] # "NONE" => status'[o] # "NONE"
             /\ status[o] = "NONE" => status'[o] = "NONE"
    BY <1>2 DEF MarkFailed, UpdateStatus, RequestInv
<1>3. ASSUME MarkPaid
      PROVE  /\ status[o] # "NONE" => status'[o] # "NONE"
             /\ status[o] = "NONE" => status'[o] = "NONE"
    <2>1. worker \in Jobs /\ OrderOf(worker) \in Orders
        BY <1>3 DEF MarkPaid, QueueInv, Jobs, OrderOf
    <2>2. status[OrderOf(worker)] # "NONE"
        BY <1>3, <2>1 DEF MarkPaid, QueueInv, RequestInv
    <2> QED BY <1>3, <2>1, <2>2 DEF MarkPaid, UpdateStatus
<1>4. ASSUME NEW s \in Sweeps, NEW u \in Orders, NEW q, ExpireOrderOf(s, u, q)
      PROVE  /\ status[o] # "NONE" => status'[o] # "NONE"
             /\ status[o] = "NONE" => status'[o] = "NONE"
    BY <1>4 DEF ExpireOrderOf, UpdateStatus
<1>5. CASE UNCHANGED status
    BY <1>5
<1> QED
    BY <1>1, <1>2, <1>3, <1>4, <1>5
       DEF PipelineStep, BlindStep, HandlerStep, CheckStock, ReserveRefused, OpenSession,
           SaveSession, HandlerFails, ReturnStock, Pay, Age, DeliverWebhook, TakeJob, FinishJob,
           JobFails, ExpireFails, FindOrderAs, EmitTicketsOf, ScanFrom, Crash, vars

\* What a step of the pipeline does to the batches and the rows, seen from outside.
LEMMA PipelineTypes ==
    ASSUME AdminInv, [PipelineStep]_vars, UNCHANGED rowVars,
           patch' \in [Patches -> PatchStates],
           \A p \in Patches : Open(p)' =>
                patch'[p].order \in Orders /\ status[patch'[p].order] # "NONE",
           loaded' \in [Sweeps -> [Orders -> Nat]], carried' \in Nat,
           \A s \in Sweeps : \A o \in batch'[s] : status[o] # "NONE"
    PROVE  AdminTypeOK' /\ QueueInv' /\ RequestInv' /\ RowInv'
<1>1. TypeOK /\ QueueInv /\ RequestInv /\ RowInv
    BY DEF AdminInv, AdminTypeOK
<1>2. TypeOK' /\ QueueInv' /\ RequestInv'
    BY <1>1, StepTypes, StepRequests
<1>3. \A o \in Orders : status[o] # "NONE" => status'[o] # "NONE"
    BY <1>1, StatusStays
<1>4. AdminTypeOK'
    BY <1>2, <1>3 DEF AdminInv, AdminTypeOK, rowVars
<1>5. RowInv'
    <2> SUFFICES ASSUME NEW o \in Orders, status'[o] = "NONE"
                 PROVE  amount'[o] = Qty[o] /\ \A s \in Sweeps : o \notin batch'[s]
        BY DEF RowInv
    <2>1. status[o] = "NONE"
        BY <1>3
    <2> QED BY <1>1, <2>1, AmountKept DEF RowInv, rowVars
<1> QED BY <1>2, <1>4, <1>5

-----------------------------------------------------------------------------
(* The seats that are backed *)

\* Nobody's seats change hands: a sweep or a PATCH may learn what a row says now.
LEMMA BackedKept ==
    ASSUME AdminInv, NEW m \in [Orders -> Nat], Backed(m),
           UNCHANGED <<avail, amount, shrunk>>, Holding \subseteq Holding',
           \A s \in Sweeps : \A o \in Orders : o \in batch'[s] =>
              \/ o \in batch[s] /\ loaded'[s][o] = loaded[s][o]
              \/ loaded'[s][o] = amount[o],
           \A p \in Patches : Open(p)' =>
              \/ SameRead(p)
              \/ /\ patch'[p].seen \in {"PENDING", "PAID"}
                 /\ patch'[p].had = amount[patch'[p].order]
              \/ /\ patch'[p].seen \notin {"PENDING", "PAID"}
                 /\ patch'[p].order \notin Holding
    PROVE  Backed(m)'
<1>1. ASSUME NEW o \in Orders
      PROVE  /\ o \notin Holding' => m[o] = 0
             /\ m[o] <= amount'[o] /\ m[o] <= Qty[o]
    BY DEF Backed
<1>2. ASSUME NEW o \in Orders, NEW s \in Sweeps, o \in batch'[s]
      PROVE  m[o] <= loaded'[s][o]
    BY <1>2 DEF Backed
<1>3. ASSUME NEW o \in Orders, NEW p \in Patches, Open(p)', patch'[p].order = o
      PROVE  IF patch'[p].seen \in {"PENDING", "PAID"} THEN m[o] <= patch'[p].had
             ELSE m[o] = 0
    <2>1. CASE SameRead(p)
        BY <1>3, <2>1 DEF Backed, SameRead
    <2>2. CASE ~SameRead(p)
        BY <1>3, <2>2 DEF Backed
    <2> QED BY <2>1, <2>2
<1>4. avail' + Units(Orders, m) + shrunk' >= Total
    BY DEF Backed
<1> QED BY <1>1, <1>2, <1>3, <1>4 DEF Backed

\* Order c loses backed seats, and as many go back to the lot or are recorded as taken
\* off its row.
LEMMA BackedLowered ==
    ASSUME AdminInv, NEW m \in [Orders -> Nat], Backed(m),
           NEW c \in Orders, NEW x \in Nat, x <= m[c],
           avail' \in Nat, shrunk' \in Nat, avail' + shrunk' + x >= avail + shrunk + m[c],
           c \notin Holding' => x = 0, x <= amount'[c],
           \A o \in Orders \ {c} : amount'[o] = amount[o] /\ (o \in Holding => o \in Holding'),
           \A s \in Sweeps : \A o \in batch'[s] : o \in batch[s] /\ loaded'[s][o] = loaded[s][o],
           \A p \in Patches : Open(p)' => patch'[p] = patch[p]
    PROVE  \E n \in [Orders -> Nat] : Backed(n)'
<1> DEFINE n == [m EXCEPT ![c] = x]
<1>1. /\ n \in [Orders -> Nat] /\ n[c] = x /\ \A o \in Orders \ {c} : n[o] = m[o]
      /\ \A o \in Orders : n[o] <= m[o] /\ n[o] \in Nat /\ m[o] \in Nat
    OBVIOUS
<1>t. /\ amount \in [Orders -> Nat] /\ avail \in Nat /\ shrunk \in Nat
      /\ loaded \in [Sweeps -> [Orders -> Nat]] /\ patch \in [Patches -> PatchStates]
    BY AmountType DEF AdminInv, AdminTypeOK, TypeOK
<1> HIDE DEF n
<1>2. ASSUME NEW o \in Orders
      PROVE  /\ o \notin Holding' => n[o] = 0
             /\ n[o] <= amount'[o] /\ n[o] <= Qty[o]
    <2>1. /\ o \notin Holding => m[o] = 0
          /\ m[o] <= amount[o] /\ m[o] <= Qty[o]
        BY DEF Backed
    <2>2. CASE o = c
        BY <1>1, <2>1, <2>2
    <2>3. CASE o # c
        BY <1>1, <2>1, <2>3
    <2> QED BY <2>2, <2>3
<1>3. ASSUME NEW o \in Orders, NEW s \in Sweeps, o \in batch'[s]
      PROVE  n[o] <= loaded'[s][o]
    <2>1. m[o] <= loaded[s][o] /\ loaded[s][o] \in Nat /\ loaded'[s][o] = loaded[s][o]
        BY <1>3, <1>t DEF Backed
    <2> QED BY <1>1, <2>1
<1>4. ASSUME NEW o \in Orders, NEW p \in Patches, Open(p)', patch'[p].order = o
      PROVE  IF patch'[p].seen \in {"PENDING", "PAID"} THEN n[o] <= patch'[p].had
             ELSE n[o] = 0
    <2>1. patch'[p] = patch[p]
        BY <1>4
    <2>2. IF patch[p].seen \in {"PENDING", "PAID"} THEN m[o] <= patch[p].had ELSE m[o] = 0
        BY <1>4, <2>1 DEF Backed
    <2>3. patch[p].had \in Nat
        <3>1. patch[p] \in PatchStates /\ Open(p)
            BY <1>4, <1>t, <2>1
        <3> QED BY <3>1 DEF PatchStates
    <2> QED BY <1>1, <2>1, <2>2, <2>3
<1>5. avail' + Units(Orders, n) + shrunk' >= Total
    <2>1. /\ Units(Orders, m) \in Nat
          /\ Units(Orders, n) = Units(Orders, m) - m[c] + n[c]
        BY <1>1, OrdersAssumption, UnitsAt
    <2>2. avail + Units(Orders, m) + shrunk >= Total
        BY DEF Backed
    <2> QED BY <1>1, <1>t, <2>1, <2>2
<1> QED BY <1>1, <1>2, <1>3, <1>4, <1>5 DEF Backed

\* A request takes the seats of its order.
LEMMA BackedRaised ==
    ASSUME AdminInv, NEW m \in [Orders -> Nat], Backed(m), NEW c \in Orders, Reserve(c),
           UNCHANGED adminVars
    PROVE  \E n \in [Orders -> Nat] : Backed(n)'
<1> DEFINE n == [m EXCEPT ![c] = Qty[c]]
<1>t. /\ TypeOK /\ RequestInv /\ RowInv
      /\ amount \in [Orders -> Nat] /\ avail \in Nat /\ shrunk \in Nat
    BY AmountType DEF AdminInv, AdminTypeOK, TypeOK
<1>1. /\ n \in [Orders -> Nat] /\ n[c] = Qty[c] /\ \A o \in Orders \ {c} : n[o] = m[o]
      /\ \A o \in Orders : n[o] \in Nat /\ m[o] \in Nat
      /\ Qty[c] \in Nat
    OBVIOUS
<1> HIDE DEF n
<1>2. /\ req[c] = "checked" /\ avail >= Qty[c] /\ avail' = avail - Qty[c]
      /\ status' = [status EXCEPT ![c] = "PENDING"] /\ req' = [req EXCEPT ![c] = "reserved"]
      /\ UNCHANGED <<batch, patch, deleted, amount, shrunk, loaded>>
    BY AmountKept DEF Reserve, DecrementStock, UpdateStatus, GoTo, adminVars, rowVars
<1>3. /\ status[c] = "NONE" /\ amount[c] = Qty[c] /\ \A s \in Sweeps : c \notin batch[s]
    BY <1>2, <1>t DEF RequestInv, RowInv
<1>4. c \notin Holding /\ c \in Holding' /\ \A o \in Orders \ {c} : o \in Holding => o \in Holding'
    BY <1>2, <1>3, <1>t DEF Holding, Returning, TypeOK
<1>5. m[c] = 0
    BY <1>4 DEF Backed
<1>6. \A p \in Patches : Open(p) => patch[p].order # c
    BY <1>3 DEF AdminInv, AdminTypeOK
<1>7. ASSUME NEW o \in Orders
      PROVE  /\ o \notin Holding' => n[o] = 0
             /\ n[o] <= amount'[o] /\ n[o] <= Qty[o]
    <2>1. CASE o = c
        BY <1>1, <1>2, <1>3, <1>4, <2>1
    <2>2. CASE o # c
        BY <1>1, <1>2, <1>4, <2>2 DEF Backed
    <2> QED BY <2>1, <2>2
<1>8. ASSUME NEW o \in Orders, NEW s \in Sweeps, o \in batch'[s]
      PROVE  n[o] <= loaded'[s][o]
    BY <1>1, <1>2, <1>3, <1>8 DEF Backed
<1>9. ASSUME NEW o \in Orders, NEW p \in Patches, Open(p)', patch'[p].order = o
      PROVE  IF patch'[p].seen \in {"PENDING", "PAID"} THEN n[o] <= patch'[p].had
             ELSE n[o] = 0
    <2>1. patch'[p] = patch[p] /\ o # c /\ n[o] = m[o]
        BY <1>1, <1>2, <1>6, <1>9
    <2> QED BY <1>9, <2>1 DEF Backed
<1>10. avail' + Units(Orders, n) + shrunk' >= Total
    <2>1. /\ Units(Orders, m) \in Nat
          /\ Units(Orders, n) = Units(Orders, m) - m[c] + n[c]
        BY <1>1, OrdersAssumption, UnitsAt
    <2>2. avail + Units(Orders, m) + shrunk >= Total
        BY DEF Backed
    <2> QED BY <1>1, <1>2, <1>5, <1>t, <2>1, <2>2
<1> QED BY <1>1, <1>7, <1>8, <1>9, <1>10 DEF Backed

-----------------------------------------------------------------------------
(* Steps among PATCHes and DELETEs *)

\* What the requests that are open work on.
LEMMA PatchTypes ==
    ASSUME AdminInv, NEW p \in Patches, Open(p)
    PROVE  /\ patch[p].order \in Orders /\ status[patch[p].order] # "NONE"
           /\ patch[p].seen \in OrderStatus /\ patch[p].had \in Nat
           /\ patch[p].entity \in Entities
<1>1. patch[p] \in PatchStates
    BY DEF AdminInv, AdminTypeOK
<1> QED BY <1>1 DEF PatchStates, AdminInv, AdminTypeOK

LEMMA BlindAdmin ==
    ASSUME AdminInv, BlindStep \/ UNCHANGED vars, UNCHANGED adminVars PROVE AdminInv'
<1>1. PICK m \in [Orders -> Nat] : Backed(m)
    BY DEF AdminInv
<1>2. /\ UNCHANGED <<patch, deleted, amount, shrunk, loaded, carried>> /\ UNCHANGED rowVars
      /\ TypeOK /\ QueueInv /\ RequestInv /\ RowInv /\ avail \in Nat /\ shrunk \in Nat
    BY AmountKept DEF adminVars, rowVars, AdminInv, AdminTypeOK, TypeOK
<1>3. \A s \in Sweeps : batch'[s] \subseteq batch[s]
    BY <1>2 DEF TypeOK, BlindStep, HandlerStep, CheckStock, Reserve, ReserveRefused, OpenSession,
           SaveSession, HandlerFails, ReturnStock, MarkFailed, Pay, Age, DeliverWebhook,
           TakeJob, MarkPaid, FinishJob, JobFails, ExpireFails, vars
<1>4. AdminTypeOK' /\ QueueInv' /\ RequestInv' /\ RowInv'
    <2>1. [PipelineStep]_vars
        BY DEF PipelineStep
    <2>2. \A s \in Sweeps : \A o \in batch'[s] : status[o] # "NONE"
        BY <1>2, <1>3 DEF RowInv, TypeOK
    <2>3. /\ patch' \in [Patches -> PatchStates] /\ loaded' \in [Sweeps -> [Orders -> Nat]]
          /\ carried' \in Nat
        BY <1>2 DEF AdminInv, AdminTypeOK
    <2>4. \A p \in Patches : Open(p)' =>
             patch'[p].order \in Orders /\ status[patch'[p].order] # "NONE"
        BY <1>2, PatchTypes
    <2> QED BY <1>2, <2>1, <2>2, <2>3, <2>4, PipelineTypes
<1>5. ASSUME NEW o \in Orders, Reserve(o) PROVE \E n \in [Orders -> Nat] : Backed(n)'
    BY <1>1, <1>5, BackedRaised
<1>6. ASSUME NEW o \in Orders, ReturnStock(o) PROVE \E n \in [Orders -> Nat] : Backed(n)'
    <2>1. /\ avail' = avail + Qty[o] /\ req' = [req EXCEPT ![o] = "returned"]
          /\ status' = status
        BY <1>6 DEF ReturnStock, IncrementStock, GoTo
    <2>2. \A u \in Orders \ {o} : u \in Holding => u \in Holding'
        BY <2>1, <1>2 DEF Holding, Returning, TypeOK
    <2>3. m[o] <= Qty[o] /\ m[o] \in Nat /\ Qty[o] \in Nat
        BY <1>1 DEF Backed
    <2>4. avail' \in Nat /\ avail' + shrunk' + 0 >= avail + shrunk + m[o] /\ shrunk' \in Nat
        BY <1>2, <2>1, <2>3
    <2>5. 0 \in Nat /\ 0 <= m[o] /\ 0 <= amount'[o]
        BY <1>2, <2>3, AmountType DEF AdminInv
    <2>6. \A s \in Sweeps : \A u \in batch'[s] : u \in batch[s] /\ loaded'[s][u] = loaded[s][u]
        BY <1>2, <1>3
    <2> QED BY <1>1, <1>2, <2>2, <2>4, <2>5, <2>6, BackedLowered
<1>7. ASSUME ~ (\E o \in Orders : Reserve(o) \/ ReturnStock(o))
      PROVE  \E n \in [Orders -> Nat] : Backed(n)'
    <2>1. avail' = avail
        BY <1>7 DEF BlindStep, HandlerStep, CheckStock, ReserveRefused, OpenSession,
           SaveSession, HandlerFails, MarkFailed, Pay, Age, DeliverWebhook,
           TakeJob, MarkPaid, FinishJob, JobFails, ExpireFails, vars
    <2>2. Holding \subseteq Holding'
        <3>1. ASSUME NEW o \in Orders, \/ CheckStock(o) \/ ReserveRefused(o) \/ OpenSession(o)
                                       \/ SaveSession(o) \/ HandlerFails(o)
              PROVE  Holding \subseteq Holding'
            BY <1>2, <3>1 DEF CheckStock, ReserveRefused, OpenSession, SaveSession, HandlerFails,
                        GoTo, Holding, Returning, TypeOK
        <3>2. ASSUME NEW o \in Orders, MarkFailed(o) PROVE Holding \subseteq Holding'
            BY <1>2, <3>2 DEF MarkFailed, UpdateStatus, GoTo, Holding, Returning, TypeOK
        <3>3. ASSUME MarkPaid PROVE Holding \subseteq Holding'
            BY <1>2, <3>3 DEF MarkPaid, UpdateStatus, Holding, Returning, TypeOK
        <3>4. CASE UNCHANGED <<status, req>>
            BY <3>4 DEF Holding, Returning
        <3> QED BY <1>7, <3>1, <3>2, <3>3, <3>4
                DEF BlindStep, HandlerStep, Pay, Age, DeliverWebhook, TakeJob, FinishJob,
                    JobFails, ExpireFails, vars
    <2>3. \A p \in Patches : Open(p)' => SameRead(p)
        BY <1>2 DEF SameRead
    <2>4. Backed(m)'
        BY <1>1, <1>2, <1>3, <2>1, <2>2, <2>3, BackedKept
    <2> QED BY <2>4
<1> QED BY <1>4, <1>5, <1>6, <1>7 DEF AdminInv

\* The worker and a sweep look at rows: the sweep keeps what each says.
LEMMA LookAdmin ==
    ASSUME AdminInv, FindVisibleOrder \/ EmitCarried \/ \E s \in Sweeps : ScanVisible(s)
    PROVE  AdminInv'
<1>1. PICK m \in [Orders -> Nat] : Backed(m)
    BY DEF AdminInv
<1>2. /\ TypeOK /\ QueueInv /\ RequestInv /\ RowInv /\ amount \in [Orders -> Nat]
      /\ carried \in Nat /\ patch \in [Patches -> PatchStates]
      /\ loaded \in [Sweeps -> [Orders -> Nat]]
    BY AmountType DEF AdminInv, AdminTypeOK
<1>3. UNCHANGED <<avail, status, req, amount, shrunk, deleted, patch>> /\ UNCHANGED rowVars
    BY AmountKept DEF FindVisibleOrder, EmitCarried, ScanVisible, FindOrderAs, EmitTicketsOf, ScanFrom, rowVars
<1>4. /\ PipelineStep /\ carried' \in Nat
    <2>1. ASSUME FindVisibleOrder PROVE PipelineStep /\ carried' \in Nat
        <3>1. OrderOf(worker) \in Orders
            BY <1>2, <2>1 DEF FindVisibleOrder, FindOrderAs, TypeOK, QueueInv, Jobs, OrderOf
        <3>2. (IF OrderOf(worker) \in deleted THEN "NONE" ELSE status[OrderOf(worker)])
                 \in OrderStatus \union {"NONE"}
            BY <1>2, <3>1 DEF TypeOK
        <3>3. FindOrderAs(IF OrderOf(worker) \in deleted THEN "NONE" ELSE status[OrderOf(worker)])
            BY <2>1 DEF FindVisibleOrder
        <3>4. PipelineStep
            BY <3>2, <3>3 DEF PipelineStep
        <3> QED BY <1>2, <2>1, <3>1, <3>4 DEF FindVisibleOrder
    <2>2. ASSUME EmitCarried PROVE PipelineStep /\ carried' \in Nat
        BY <1>2, <2>2 DEF EmitCarried, PipelineStep
    <2>3. ASSUME NEW s \in Sweeps, ScanVisible(s) PROVE PipelineStep /\ carried' \in Nat
        <3>1. Expirable \ deleted \in SUBSET Orders
            BY DEF Expirable
        <3> QED BY <1>2, <2>3, <3>1 DEF ScanVisible, PipelineStep
    <2> QED BY <2>1, <2>2, <2>3
<1>5. /\ loaded' \in [Sweeps -> [Orders -> Nat]]
      /\ \A s \in Sweeps : \A o \in Orders : o \in batch'[s] =>
            /\ status[o] # "NONE"
            /\ \/ o \in batch[s] /\ loaded'[s][o] = loaded[s][o]
               \/ loaded'[s][o] = amount[o]
      /\ \A s \in Sweeps : batch'[s] \subseteq Orders
    <2>1. CASE UNCHANGED <<batch, loaded>>
        BY <1>2, <2>1 DEF RowInv, TypeOK
    <2>2. ASSUME NEW s \in Sweeps, ScanVisible(s)
          PROVE  /\ loaded' \in [Sweeps -> [Orders -> Nat]]
                 /\ \A u \in Sweeps : \A o \in Orders : o \in batch'[u] =>
                       /\ status[o] # "NONE"
                       /\ \/ o \in batch[u] /\ loaded'[u][o] = loaded[u][o]
                          \/ loaded'[u][o] = amount[o]
                 /\ \A u \in Sweeps : batch'[u] \subseteq Orders
        <3> DEFINE g == [o \in Orders |-> IF o \in batch'[s] THEN amount[o] ELSE 0]
        <3>1. loaded' = [loaded EXCEPT ![s] = g]
            BY <2>2 DEF ScanVisible
        <3>2. PICK found \in SUBSET (Expirable \ deleted) : batch' = [batch EXCEPT ![s] = found]
            BY <2>2 DEF ScanVisible, ScanFrom
        <3>3. g \in [Orders -> Nat] /\ \A o \in Orders : o \in batch'[s] => g[o] = amount[o]
            BY <1>2
        <3> HIDE DEF g
        <3>4. /\ loaded' \in [Sweeps -> [Orders -> Nat]] /\ loaded'[s] = g
              /\ \A u \in Sweeps \ {s} : loaded'[u] = loaded[u] /\ batch'[u] = batch[u]
              /\ batch'[s] = found
            BY <1>2, <3>1, <3>2, <3>3 DEF TypeOK
        <3>5. \A o \in found : o \in Orders /\ status[o] # "NONE"
            BY <3>2 DEF Expirable
        <3>6. ASSUME NEW u \in Sweeps
              PROVE  /\ batch'[u] \subseteq Orders
                     /\ \A o \in Orders : o \in batch'[u] =>
                           /\ status[o] # "NONE"
                           /\ \/ o \in batch[u] /\ loaded'[u][o] = loaded[u][o]
                              \/ loaded'[u][o] = amount[o]
            <4>1. CASE u = s
                BY <3>3, <3>4, <3>5, <4>1
            <4>2. CASE u # s
                BY <1>2, <3>4, <4>2 DEF RowInv, TypeOK
            <4> QED BY <4>1, <4>2
        <3> QED BY <3>4, <3>6
    <2>3. FindVisibleOrder \/ EmitCarried => UNCHANGED <<batch, loaded>>
        BY DEF FindVisibleOrder, EmitCarried, FindOrderAs, EmitTicketsOf
    <2> QED BY <2>1, <2>2, <2>3
<1>6. AdminTypeOK' /\ QueueInv' /\ RequestInv' /\ RowInv'
    <2>1. \A p \in Patches : Open(p)' =>
             patch'[p].order \in Orders /\ status[patch'[p].order] # "NONE"
        BY <1>3, PatchTypes
    <2> QED BY <1>2, <1>3, <1>4, <1>5, <2>1, PipelineTypes
<1>7. Backed(m)'
    <2>1. Holding \subseteq Holding'
        BY <1>3 DEF Holding, Returning
    <2>2. \A p \in Patches : Open(p)' => SameRead(p)
        BY <1>3 DEF SameRead
    <2> QED BY <1>1, <1>3, <1>5, <2>1, <2>2, BackedKept
<1> QED BY <1>6, <1>7 DEF AdminInv

\* A sweep gives back what it loaded, which is no less than what is backed.
LEMMA ExpireAdmin ==
    ASSUME AdminInv, NEW s \in Sweeps, NEW o \in Orders, ExpireLoaded(s, o) PROVE AdminInv'
<1>1. PICK m \in [Orders -> Nat] : Backed(m)
    BY DEF AdminInv
<1>2. /\ TypeOK /\ QueueInv /\ RequestInv /\ RowInv /\ amount \in [Orders -> Nat]
      /\ carried \in Nat /\ patch \in [Patches -> PatchStates]
      /\ loaded \in [Sweeps -> [Orders -> Nat]] /\ avail \in Nat /\ shrunk \in Nat
    BY AmountType DEF AdminInv, AdminTypeOK, TypeOK
<1>3. /\ o \in batch[s] /\ batch' = [batch EXCEPT ![s] = @ \ {o}]
      /\ loaded' = [loaded EXCEPT ![s][o] = 0]
      /\ UNCHANGED <<req, patch, carried, amount, shrunk, deleted>> /\ UNCHANGED rowVars
      /\ IF status[o] = "PENDING"
         THEN status' = [status EXCEPT ![o] = "EXPIRED"] /\ avail' = avail + loaded[s][o]
         ELSE UNCHANGED <<status, avail>>
    BY AmountKept DEF ExpireLoaded, ExpireOrderOf, UpdateStatus, IncrementStock, rowVars
<1>4. /\ loaded' \in [Sweeps -> [Orders -> Nat]] /\ loaded[s][o] \in Nat
      /\ \A u \in Sweeps : \A x \in batch'[u] :
            x \in batch[u] /\ x \in Orders /\ loaded'[u][x] = loaded[u][x]
    BY <1>2, <1>3 DEF TypeOK
<1>5. AdminTypeOK' /\ QueueInv' /\ RequestInv' /\ RowInv'
    <2>1. PipelineStep
        BY <1>4 DEF ExpireLoaded, PipelineStep
    <2>2. \A u \in Sweeps : \A x \in batch'[u] : status[x] # "NONE"
        BY <1>2, <1>4 DEF RowInv
    <2>3. \A p \in Patches : Open(p)' =>
             patch'[p].order \in Orders /\ status[patch'[p].order] # "NONE"
        BY <1>3, PatchTypes
    <2> QED BY <1>2, <1>3, <1>4, <2>1, <2>2, <2>3, PipelineTypes
<1>6. \E n \in [Orders -> Nat] : Backed(n)'
    <2>1. CASE status[o] = "PENDING"
        <3>1. m[o] <= loaded[s][o] /\ m[o] \in Nat
            BY <1>1, <1>3 DEF Backed
        <3>2. \A u \in Orders \ {o} : u \in Holding => u \in Holding'
            BY <1>2, <1>3, <2>1 DEF Holding, Returning, TypeOK
        <3>3. avail' \in Nat /\ avail' + shrunk' + 0 >= avail + shrunk + m[o] /\ shrunk' \in Nat
            BY <1>2, <1>3, <1>4, <2>1, <3>1
        <3>4. 0 \in Nat /\ 0 <= m[o] /\ 0 <= amount'[o]
            BY <1>2, <1>3, <3>1
        <3> QED BY <1>1, <1>3, <1>4, <3>2, <3>3, <3>4, BackedLowered
    <2>2. CASE status[o] # "PENDING"
        <3>1. Holding \subseteq Holding' /\ UNCHANGED <<avail, amount, shrunk>>
            BY <1>3, <2>2 DEF Holding, Returning
        <3>2. \A p \in Patches : Open(p)' => SameRead(p)
            BY <1>3 DEF SameRead
        <3>3. Backed(m)'
            BY <1>1, <1>3, <1>4, <3>1, <3>2, BackedKept
        <3> QED BY <3>3
    <2> QED BY <2>1, <2>2
<1> QED BY <1>5, <1>6 DEF AdminInv

LEMMA CrashAdmin == ASSUME AdminInv, CrashAll PROVE AdminInv'
<1>1. PICK m \in [Orders -> Nat] : Backed(m)
    BY DEF AdminInv
<1>2. /\ TypeOK /\ QueueInv /\ RequestInv /\ RowInv /\ patch \in [Patches -> PatchStates]
    BY DEF AdminInv, AdminTypeOK
<1>3. /\ Crash /\ UNCHANGED <<avail, status, amount, shrunk>> /\ UNCHANGED rowVars
      /\ req' = [o \in Orders |-> IF req[o] \in InFlight THEN "lost" ELSE req[o]]
      /\ batch' = [s \in Sweeps |-> {}]
      /\ patch' = [p \in Patches |-> IF Open(p) THEN [at |-> "lost"] ELSE patch[p]]
      /\ loaded' = [s \in Sweeps |-> [o \in Orders |-> 0]] /\ carried' = 0
    BY AmountKept DEF CrashAll, Crash, rowVars
<1>4. patch' \in [Patches -> PatchStates] /\ \A p \in Patches : ~Open(p)'
    <2>1. [at |-> "lost"] \in PatchStates /\ [at |-> "lost"].at \notin {"read", "compared"}
        BY DEF PatchStates
    <2> QED BY <1>2, <1>3, <2>1
<1>5. AdminTypeOK' /\ QueueInv' /\ RequestInv' /\ RowInv'
    <2>1. PipelineStep
        BY <1>3 DEF PipelineStep
    <2> QED BY <1>2, <1>3, <1>4, <2>1, PipelineTypes
<1>6. Backed(m)'
    <2>1. Holding \subseteq Holding'
        BY <1>2, <1>3 DEF Holding, Returning, TypeOK
    <2> QED BY <1>1, <1>3, <1>4, <2>1, BackedKept
<1> QED BY <1>5, <1>6 DEF AdminInv

\* An open PATCH knows what the row says now or what it has read before; one that ends,
\* or a DELETE, moves no seat.
Learns(p) ==
    \/ SameRead(p)
    \/ /\ patch'[p].seen \in {"PENDING", "PAID"}
       /\ patch'[p].had = amount[patch'[p].order]
    \/ /\ patch'[p].seen \notin {"PENDING", "PAID"}
       /\ patch'[p].order \notin Holding

GoodPatch ==
    /\ patch' \in [Patches -> PatchStates]
    /\ \A p \in Patches : Open(p)' => status[patch'[p].order] # "NONE" /\ Learns(p)

\* One request goes on to state a.
LEMMA OnePatch ==
    ASSUME AdminInv, NEW p \in Patches, NEW a \in PatchStates,
           patch' = [patch EXCEPT ![p] = a],
           a.at \in {"read", "compared"} =>
              /\ status[a.order] # "NONE"
              /\ \/ a.seen \in {"PENDING", "PAID"} /\ a.had = amount[a.order]
                 \/ a.seen \notin {"PENDING", "PAID"} /\ a.order \notin Holding
                 \/ /\ Open(p) /\ a.order = patch[p].order /\ a.seen = patch[p].seen
                    /\ a.had = patch[p].had
    PROVE  GoodPatch
<1>1. /\ patch' \in [Patches -> PatchStates] /\ patch'[p] = a
      /\ \A q \in Patches \ {p} : patch'[q] = patch[q]
    BY DEF AdminInv, AdminTypeOK
<1>2. ASSUME NEW q \in Patches, Open(q)'
      PROVE  status[patch'[q].order] # "NONE" /\ Learns(q)
    <2>1. CASE q = p
        BY <1>1, <1>2, <2>1 DEF Learns, SameRead
    <2>2. CASE q # p
        BY <1>1, <1>2, <2>2, PatchTypes DEF Learns, SameRead
    <2> QED BY <2>1, <2>2
<1> QED BY <1>1, <1>2 DEF GoodPatch

LEMMA PatchAdmin ==
    ASSUME AdminInv,
           \/ \E p \in Patches :
                 \/ \E o \in Orders :
                       \E to \in (Statuses \union {status[o]}) \ {"NONE"},
                          q \in Quantities \union {quantity[o]}, l \in Lots :
                          ReadForPatch(p, o, to, q, l)
                 \/ ComparePatch(p)
                 \/ PatchFails(p)
           \/ \E o \in Orders : DeleteOrder(o)
    PROVE  AdminInv'
<1>1. PICK m \in [Orders -> Nat] : Backed(m)
    BY DEF AdminInv
<1>2. /\ TypeOK /\ QueueInv /\ RequestInv /\ RowInv /\ patch \in [Patches -> PatchStates]
      /\ amount \in [Orders -> Nat] /\ quantity \in [Orders -> Nat]
      /\ deleted \subseteq {o \in Orders : status[o] # "NONE"}
    BY AmountType DEF AdminInv, AdminTypeOK
<1>3. /\ UNCHANGED <<avail, status, old, req, session, job, worker, step, tickets, batch, crashes,
                     quantity, lot, shrunk, loaded, carried>>
      /\ faults' \in 0 .. MaxFaults
    BY <1>2 DEF ReadForPatch, ComparePatch, PatchFails, DeleteOrder, Fault, vars, rowVars, TypeOK
<1>4. deleted' \subseteq {o \in Orders : status[o] # "NONE"} /\ amount' = amount
    BY <1>2, <1>3, AmountKept DEF ReadForPatch, ComparePatch, PatchFails, DeleteOrder, rowVars
<1>5. GoodPatch
    <2>1. /\ [at |-> "refused"] \in PatchStates /\ [at |-> "refused"].at \notin {"read", "compared"}
          /\ [at |-> "error"] \in PatchStates /\ [at |-> "error"].at \notin {"read", "compared"}
        BY DEF PatchStates
    <2>2. ASSUME NEW p \in Patches, PatchFails(p) PROVE GoodPatch
        <3>1. patch' = [patch EXCEPT ![p] = [at |-> "error"]]
            BY <2>2 DEF PatchFails, Answer
        <3> QED BY <2>1, <3>1, OnePatch
    <2>3. ASSUME NEW o \in Orders, DeleteOrder(o) PROVE GoodPatch
        <3>1. patch' = patch
            BY <2>3 DEF DeleteOrder
        <3> QED BY <1>2, <3>1, PatchTypes DEF GoodPatch, Learns, SameRead
    <2>4. ASSUME NEW p \in Patches, NEW o \in Orders,
                 NEW to \in (Statuses \union {status[o]}) \ {"NONE"},
                 NEW q \in Quantities \union {quantity[o]}, NEW l \in Lots,
                 ReadForPatch(p, o, to, q, l)
          PROVE  GoodPatch
        <3> DEFINE e == [status |-> to, quantity |-> q, lot |-> l, marked |-> FALSE]
                   a == [at |-> "read", order |-> o, seen |-> status[o],
                         had |-> amount[o], entity |-> e]
        <3>1. CASE status[o] = "NONE" \/ o \in deleted \/ ~Allows(status[o], to)
            <4>1. patch' = [patch EXCEPT ![p] = [at |-> "refused"]]
                BY <2>4, <3>1 DEF ReadForPatch, Answer
            <4> QED BY <2>1, <4>1, OnePatch
        <3>2. CASE ~ (status[o] = "NONE" \/ o \in deleted \/ ~Allows(status[o], to))
            <4>1. patch' = [patch EXCEPT ![p] = a]
                BY <2>4, <3>2 DEF ReadForPatch
            <4>2. status[o] \in OrderStatus /\ to \in OrderStatus /\ amount[o] \in Nat /\ q \in Nat
                <5>1. Statuses \subseteq OrderStatus /\ Quantities \subseteq Nat
                    BY BodiesAssumption
                <5> QED BY <1>2, <3>2, <5>1 DEF TypeOK
            <4>3. e \in Entities
                BY <4>2 DEF Entities
            <4> HIDE DEF e
            <4>4. /\ a \in PatchStates /\ a.order = o /\ a.seen = status[o] /\ a.had = amount[o]
                BY <4>2, <4>3 DEF PatchStates
            <4>5. status[o] \notin {"PENDING", "PAID"} => o \notin Holding
                BY DEF Holding
            <4> HIDE DEF a
            <4> QED BY <3>2, <4>1, <4>4, <4>5, OnePatch
        <3> QED BY <3>1, <3>2
    <2>5. ASSUME NEW p \in Patches, ComparePatch(p) PROVE GoodPatch
        <3> DEFINE r == patch[p]
                   d == {c \in Columns : r.entity[c] # Row(r.order)[c]}
                   a == [at |-> "compared", order |-> r.order, seen |-> r.seen,
                         had |-> r.had, entity |-> r.entity, sets |-> d]
        <3>1. Open(p) /\ patch' = [patch EXCEPT ![p] = a]
            BY <2>5 DEF ComparePatch
        <3>2. d \in SUBSET Columns
            OBVIOUS
        <3> HIDE DEF d
        <3>3. /\ a \in PatchStates /\ a.order = patch[p].order /\ a.seen = patch[p].seen
              /\ a.had = patch[p].had /\ status[a.order] # "NONE"
            BY <3>1, <3>2, PatchTypes DEF PatchStates
        <3> HIDE DEF a
        <3> QED BY <3>1, <3>3, OnePatch
    <2> QED BY <2>2, <2>3, <2>4, <2>5
<1>6. AdminTypeOK'
    BY <1>3, <1>4, <1>5 DEF AdminInv, AdminTypeOK, TypeOK, GoodPatch
<1>7. QueueInv' /\ RequestInv' /\ RowInv'
    BY <1>2, <1>3, <1>4 DEF QueueInv, RequestInv, RowInv
<1>8. Backed(m)'
    <2>1. Holding \subseteq Holding'
        BY <1>3 DEF Holding, Returning
    <2>2. \A p \in Patches : Open(p)' =>
              \/ SameRead(p)
              \/ /\ patch'[p].seen \in {"PENDING", "PAID"}
                 /\ patch'[p].had = amount[patch'[p].order]
              \/ /\ patch'[p].seen \notin {"PENDING", "PAID"}
                 /\ patch'[p].order \notin Holding
        BY <1>5 DEF GoodPatch, Learns
    <2> QED BY <1>1, <1>3, <1>4, <2>1, <2>2, BackedKept
<1> QED BY <1>6, <1>7, <1>8 DEF AdminInv

\* What the UPDATE of a PATCH leaves in a column is the entity's or what was there.
LEMMA SavedTypes ==
    ASSUME AdminInv, NEW p \in Patches, patch[p].at = "compared",
           NEW o, o = patch[p].order
    PROVE  LET new == Saved(patch[p])
           IN  /\ new.status \in {patch[p].entity.status, status[o]}
               /\ new.status \in OrderStatus
               /\ new.quantity \in Nat /\ new.lot \in Lots
               /\ new.marked => o \in deleted
<1> DEFINE r == patch[p]
           new == Saved(r)
<1>1. /\ o \in Orders /\ status[o] # "NONE" /\ r.entity \in Entities
    BY PatchTypes
<1>2. /\ status[o] \in OrderStatus /\ quantity[o] \in Nat /\ lot[o] \in Lots
    BY <1>1 DEF AdminInv, AdminTypeOK, TypeOK
<1>3. /\ new.status = IF "status" \in r.sets THEN r.entity.status ELSE Row(o).status
      /\ new.quantity = IF "quantity" \in r.sets THEN r.entity.quantity ELSE Row(o).quantity
      /\ new.lot = IF "lot" \in r.sets THEN r.entity.lot ELSE Row(o).lot
      /\ new.marked = IF "marked" \in r.sets THEN r.entity.marked ELSE Row(o).marked
    BY DEF Saved, Columns
<1>4. /\ Row(o).status = status[o] /\ Row(o).quantity = quantity[o]
      /\ Row(o).lot = lot[o] /\ Row(o).marked = (o \in deleted)
    BY DEF Row
<1>5. /\ r.entity.status \in OrderStatus /\ r.entity.quantity \in Nat
      /\ r.entity.lot \in Lots /\ r.entity.marked = FALSE
    BY <1>1 DEF Entities
<1> HIDE DEF new, r
<1>6. /\ new.status \in {r.entity.status, status[o]} /\ new.status \in OrderStatus
    BY <1>2, <1>3, <1>4, <1>5
<1>7. new.quantity \in Nat /\ new.lot \in Lots
    BY <1>2, <1>3, <1>4, <1>5
<1>8. new.marked => o \in deleted
    BY <1>3, <1>4, <1>5
<1> QED BY <1>6, <1>7, <1>8 DEF new, r

\* The write of a PATCH: what it had read was no less than what is backed, and what it
\* takes off the row of a holding order is recorded.
LEMMA WriteAdmin == ASSUME AdminInv, NEW p \in Patches, WritePatch(p) PROVE AdminInv'
<1>1. PICK m \in [Orders -> Nat] : Backed(m)
    BY DEF AdminInv
<1>2. /\ TypeOK /\ QueueInv /\ RequestInv /\ RowInv /\ patch \in [Patches -> PatchStates]
      /\ amount \in [Orders -> Nat] /\ deleted \subseteq {o \in Orders : status[o] # "NONE"}
      /\ quantity \in [Orders -> Nat] /\ lot \in [Orders -> Lots]
      /\ avail \in Nat /\ shrunk \in Nat /\ status \in [Orders -> OrderStatus \union {"NONE"}]
    BY AmountType DEF AdminInv, AdminTypeOK, TypeOK
<1>3. patch[p].at = "compared" /\ Open(p)
    BY DEF WritePatch
<1>4. PICK o \in Orders : o = patch[p].order
    BY <1>3, PatchTypes
<1>5. PICK to \in OrderStatus, had \in Nat :
         to = patch[p].entity.status /\ had = patch[p].had
    BY <1>3, PatchTypes DEF Entities
<1> DEFINE new == Saved(patch[p])
<1>s. PICK st \in OrderStatus, qu \in Nat, lo \in Lots :
         /\ st = new.status /\ qu = new.quantity /\ lo = new.lot
         /\ st \in {to, status[o]} /\ (new.marked => o \in deleted)
    BY <1>3, <1>4, <1>5, SavedTypes
<1> HIDE DEF new
<1> DEFINE held == {"PENDING", "PAID"}
           back == patch[p].seen \in held /\ to \notin held
<1>6. /\ status[o] # "NONE" /\ status' = [status EXCEPT ![o] = st]
      /\ avail' = (IF back THEN avail + had ELSE avail)
      /\ quantity' = [quantity EXCEPT ![o] = qu] /\ lot' = [lot EXCEPT ![o] = lo]
      /\ deleted' \subseteq deleted
      /\ patch' = [patch EXCEPT ![p] = [at |-> "done"]]
      /\ UNCHANGED <<old, req, session, job, worker, step, tickets, batch, faults, crashes,
                     loaded, carried>>
      /\ shrunk' = IF o \in Holding /\ o \in Holding' /\ amount[o] > amount'[o]
                   THEN shrunk + amount[o] - amount'[o] ELSE shrunk
    <2>1. NeedsToReturnStock(patch[p].seen, patch[p].entity.status) <=> back
        BY <1>5 DEF NeedsToReturnStock, OrderStatus
    <2>2. status[o] # "NONE"
        BY <1>3, <1>4, PatchTypes
    <2> HIDE DEF back
    <2> QED BY <1>4, <1>5, <1>s, <2>1, <2>2 DEF new, WritePatch, UpdateStatus, IncrementStock, Answer
<1>a. PICK asks \in Nat :
         /\ amount'[o] = asks /\ amount' \in [Orders -> Nat]
         /\ \A u \in Orders \ {o} : amount'[u] = amount[u]
    BY <1>2, <1>6 DEF amount
<1>7. /\ avail' \in Nat /\ shrunk' \in Nat /\ shrunk' >= shrunk
      /\ amount' \in [Orders -> Nat] /\ amount'[o] = asks
      /\ \A u \in Orders \ {o} : amount'[u] = amount[u] /\ status'[u] = status[u]
      /\ status'[o] = st /\ st # "NONE"
    <2>1. avail' \in Nat
        BY <1>2, <1>6
    <2>2. shrunk' \in Nat /\ shrunk' >= shrunk
        <3>1. amount[o] \in Nat
            BY <1>2
        <3> HIDE DEF back
        <3> QED BY <1>2, <1>6, <1>a, <3>1
    <2>3. /\ \A u \in Orders \ {o} : status'[u] = status[u]
          /\ status'[o] = st
        BY <1>2, <1>6
    <2>4. st # "NONE"
        BY DEF OrderStatus
    <2> QED BY <1>a, <2>1, <2>2, <2>3, <2>4
<1>8. /\ patch' \in [Patches -> PatchStates] /\ ~Open(p)'
      /\ \A q \in Patches \ {p} : patch'[q] = patch[q]
    <2>1. [at |-> "done"] \in PatchStates
        BY DEF PatchStates
    <2> QED BY <1>2, <1>6, <2>1
<1>9. AdminTypeOK' /\ QueueInv' /\ RequestInv' /\ RowInv'
    <2>1. TypeOK'
        BY <1>2, <1>6, <1>7 DEF TypeOK
    <2>2. \A u \in Orders : status[u] # "NONE" <=> status'[u] # "NONE"
        BY <1>6, <1>7
    <2>3. deleted' \subseteq {u \in Orders : status'[u] # "NONE"}
        BY <1>2, <1>6, <2>2
    <2>4. \A q \in Patches : Open(q)' => status'[patch'[q].order] # "NONE"
        BY <1>8, <2>2, PatchTypes
    <2>5. AdminTypeOK'
        BY <1>2, <1>6, <1>7, <1>8, <2>1, <2>3, <2>4 DEF AdminInv, AdminTypeOK
    <2>6. QueueInv'
        BY <1>2, <1>6 DEF QueueInv
    <2>7. RequestInv'
        BY <1>2, <1>6, <2>2 DEF RequestInv
    <2>8. RowInv'
        BY <1>2, <1>6, <1>7, <2>2 DEF RowInv
    <2> QED BY <2>5, <2>6, <2>7, <2>8
<1>10. /\ m[o] \in Nat /\ m[o] <= amount[o] /\ amount[o] \in Nat
       /\ o \notin Holding => m[o] = 0
       /\ IF patch[p].seen \in held THEN m[o] <= had ELSE m[o] = 0
    BY <1>1, <1>2, <1>3, <1>4, <1>5 DEF Backed
<1>11. /\ \A u \in Orders \ {o} : u \in Holding => u \in Holding'
       /\ o \in Holding /\ to \in held => o \in Holding'
    BY <1>s, <1>6, <1>7 DEF Holding, Returning
\* What stays backed: nothing if the seats went back, at most the row's new amount else.
<1>12. PICK x \in Nat :
          x = IF back THEN 0 ELSE IF m[o] <= asks THEN m[o] ELSE asks
    <2> HIDE DEF back
    <2> QED BY <1>10
<1>13. /\ x <= m[o] /\ x <= amount'[o] /\ (o \notin Holding' => x = 0)
       /\ avail' + shrunk' + x >= avail + shrunk + m[o]
    <2>1. CASE back
        <3>1. x = 0 /\ avail' = avail + had /\ m[o] <= had
            BY <1>6, <1>10, <1>12, <2>1
        <3> QED BY <1>2, <1>7, <1>10, <3>1
    <2>2. CASE ~ back /\ m[o] <= asks
        <3>1. x = m[o] /\ avail' = avail
            BY <1>6, <1>12, <2>2
        <3>2. o \notin Holding' => m[o] = 0
            BY <1>10, <1>11, <2>2
        <3> QED BY <1>2, <1>7, <1>10, <2>2, <3>1, <3>2
    <2>3. CASE ~ back /\ ~ (m[o] <= asks)
        <3>1. x = asks /\ avail' = avail /\ m[o] # 0 /\ x <= m[o]
            BY <1>6, <1>10, <1>12, <2>3
        <3>2. o \in Holding /\ o \in Holding'
            BY <1>10, <1>11, <2>3, <3>1
        <3>3. amount[o] > asks /\ shrunk' = shrunk + amount[o] - asks
            <4>1. amount[o] > asks
                BY <1>10, <2>3
            <4> HIDE DEF back
            <4> QED BY <1>6, <1>7, <3>2, <4>1
        <3> QED BY <1>2, <1>7, <1>10, <3>1, <3>2, <3>3
    <2> QED BY <2>1, <2>2, <2>3
<1>14. \E n \in [Orders -> Nat] : Backed(n)'
    <2>1. \A u \in Orders \ {o} : amount'[u] = amount[u] /\ (u \in Holding => u \in Holding')
        BY <1>7, <1>11
    <2>2. \A s \in Sweeps : \A u \in batch'[s] : u \in batch[s] /\ loaded'[s][u] = loaded[s][u]
        BY <1>6
    <2>3. \A q \in Patches : Open(q)' => patch'[q] = patch[q]
        BY <1>8
    <2> QED BY <1>1, <1>7, <1>13, <2>1, <2>2, <2>3, BackedLowered
<1> QED BY <1>9, <1>14 DEF AdminInv

LEMMA NextAdmin == AdminInv /\ [AdminNext]_allVars => AdminInv'
BY BlindAdmin, LookAdmin, ExpireAdmin, CrashAdmin, PatchAdmin, WriteAdmin
   DEF AdminNext, PatchStep, allVars

LEMMA InitAdmin == AdminInit => AdminInv
<1> SUFFICES ASSUME AdminInit PROVE AdminInv
    OBVIOUS
<1>1. TypeOK /\ QueueInv /\ Init
    BY InitTypes DEF AdminInit
<1>2. \A p \in Patches : patch[p] = [at |-> "new"]
    BY DEF AdminInit
<1>3. AdminTypeOK
    <2>1. [at |-> "new"] \in PatchStates
        BY DEF PatchStates
    <2> QED BY <1>1, <1>2, <2>1, BodiesAssumption DEF AdminInit, AdminTypeOK
<1>4. RequestInv /\ RowInv
    BY <1>1 DEF Init, RequestInv, RowInv, AdminInit, OrderOf, Jobs, amount
<1> DEFINE m == [o \in Orders |-> 0]
<1>5. Backed(m)
    <2>1. /\ m \in [Orders -> Nat] /\ \A o \in Orders : m[o] = 0
        OBVIOUS
    <2> HIDE DEF m
    <2>2. \A o \in Orders : m[o] \in Nat /\ m[o] <= amount[o] /\ m[o] <= Qty[o]
        BY <2>1 DEF AdminInit, amount
    <2>3. Units(Orders, m) \in Nat
        BY <2>2, OrdersAssumption, UnitsMonotone
    <2>4. avail = Total /\ shrunk = 0
        BY <1>1 DEF Init, AdminInit
    <2>5. avail + Units(Orders, m) + shrunk >= Total
        BY <2>3, <2>4
    <2>6. \A s \in Sweeps : batch[s] = {}
        BY <1>1 DEF Init
    <2> QED BY <1>2, <2>1, <2>2, <2>5, <2>6 DEF Backed
<1>6. m \in [Orders -> Nat]
    OBVIOUS
<1> HIDE DEF m
<1> QED BY <1>1, <1>3, <1>4, <1>5, <1>6 DEF AdminInv

LEMMA AlwaysAdmin == AdminSpec => []AdminInv
BY InitAdmin, NextAdmin, PTL DEF AdminSpec

\* Rows, batches and the requests in between have their types, and the stock stays at
\* zero or above, also among PATCHes and DELETEs.
THEOREM AdminTypeCorrect == AdminSpec => []AdminTypeOK
<1>1. AdminInv => AdminTypeOK
    BY DEF AdminInv
<1> QED BY <1>1, AlwaysAdmin, PTL

\* However PATCHes and DELETEs race each other, the sweeps, the payments, failures and
\* restarts, no seat is lost but those that a PATCH took off the row of an order that
\* held them (UpdateOrderUseCase against the whole pipeline).
THEOREM AdminLosesNoSeat == AdminSpec => []AdminStockNotLost
<1>1. ASSUME AdminInv PROVE AdminStockNotLost
    <2>1. PICK m \in [Orders -> Nat] : Backed(m)
        BY <1>1 DEF AdminInv
    <2>2. /\ amount \in [Orders -> Nat] /\ avail \in Nat /\ shrunk \in Nat
        BY <1>1, AmountType DEF AdminInv, AdminTypeOK, TypeOK
    <2> DEFINE H == Holding
    <2>3. H \subseteq Orders /\ IsFiniteSet(H) /\ IsFiniteSet(Orders)
        BY OrdersAssumption, FS_Subset DEF Holding
    <2>4. Seats(Orders, m) \subseteq Seats(H, amount)
        <3>1. ASSUME NEW o \in Orders PROVE 1 .. m[o] \subseteq 1 .. amount[o]
            BY <2>1, <2>2 DEF Backed
        <3>2. ASSUME NEW o \in Orders, o \notin H PROVE 1 .. m[o] = {}
            BY <2>1, <3>2 DEF Backed
        <3> QED BY <3>1, <3>2 DEF Seats
    <2>5. IsFiniteSet(Seats(H, amount))
        BY <2>2, <2>3, SeatsFinite
    <2>6. Units(Orders, m) \in Nat /\ Units(H, amount) \in Nat
          /\ Units(Orders, m) <= Units(H, amount)
        BY <2>4, <2>5, FS_Subset, FS_CardinalityType DEF Units
    <2>7. avail + Units(Orders, m) + shrunk >= Total
        BY <2>1 DEF Backed
    <2> QED BY <2>2, <2>6, <2>7 DEF AdminStockNotLost
<1> QED BY <1>1, AlwaysAdmin, PTL

\* A PATCH under way was allowed by what it had read.
AllowedInv ==
    \A p \in Patches : Open(p) => Allows(patch[p].seen, patch[p].entity.status)

LEMMA NextAllowed == AdminInv /\ AllowedInv /\ [AdminNext]_allVars => AllowedInv'
<1> SUFFICES ASSUME AdminInv, AllowedInv, [AdminNext]_allVars PROVE AllowedInv'
    OBVIOUS
<1>a. patch \in [Patches -> PatchStates]
    BY DEF AdminInv, AdminTypeOK
<1> USE DEF AllowedInv, Answer
<1>1. ASSUME NEW p \in Patches, NEW o \in Orders, NEW to, NEW q, NEW l,
             ReadForPatch(p, o, to, q, l)
      PROVE  AllowedInv'
    <2>1. \A x \in Patches \ {p} : patch'[x] = patch[x]
        BY <1>1, <1>a DEF ReadForPatch
    <2>2. CASE patch' = [patch EXCEPT ![p] = [at |-> "refused"]]
        BY <2>1, <2>2, <1>a
    <2>3. CASE /\ Allows(status[o], to)
               /\ patch'[p].seen = status[o] /\ patch'[p].entity.status = to
        BY <2>1, <2>3 DEF Allows
    <2>4. \/ patch' = [patch EXCEPT ![p] = [at |-> "refused"]]
          \/ /\ Allows(status[o], to)
             /\ patch'[p].seen = status[o] /\ patch'[p].entity.status = to
        BY <1>1, <1>a DEF ReadForPatch
    <2> QED BY <2>2, <2>3, <2>4
<1>2. ASSUME NEW p \in Patches, NEW outcome \in {"done", "error"},
             patch' = [patch EXCEPT ![p] = [at |-> outcome]]
      PROVE  AllowedInv'
    BY <1>2, <1>a
<1>3. ASSUME CrashAll PROVE AllowedInv'
    BY <1>3, <1>a DEF CrashAll
<1>4. ASSUME UNCHANGED patch PROVE AllowedInv'
    BY <1>4
<1>5. ASSUME NEW p \in Patches, ComparePatch(p) PROVE AllowedInv'
    <2>1. /\ Open(p) /\ \A x \in Patches \ {p} : patch'[x] = patch[x]
          /\ patch'[p].seen = patch[p].seen /\ patch'[p].entity = patch[p].entity
        BY <1>5, <1>a DEF ComparePatch
    <2> QED BY <2>1
<1>6. \/ UNCHANGED patch
      \/ CrashAll
      \/ \E p \in Patches : ComparePatch(p)
      \/ \E p \in Patches, o \in Orders, to \in OrderStatus, q \in Nat, l \in Lots :
            ReadForPatch(p, o, to, q, l)
      \/ \E p \in Patches, outcome \in {"done", "error"} :
            patch' = [patch EXCEPT ![p] = [at |-> outcome]]
    <2>1. ASSUME NEW p \in Patches, PatchStep(p) \/ PatchFails(p)
          PROVE  \/ ComparePatch(p)
                 \/ \E o \in Orders, to \in OrderStatus, q \in Nat, l \in Lots :
                       ReadForPatch(p, o, to, q, l)
                 \/ \E outcome \in {"done", "error"} :
                       patch' = [patch EXCEPT ![p] = [at |-> outcome]]
        <3>1. \A o \in Orders :
                 /\ (Statuses \union {status[o]}) \ {"NONE"} \subseteq OrderStatus
                 /\ Quantities \union {quantity[o]} \subseteq Nat
            <4>1. status \in [Orders -> OrderStatus \union {"NONE"}] /\ quantity \in [Orders -> Nat]
                BY DEF AdminInv, AdminTypeOK, TypeOK
            <4> QED BY <4>1, BodiesAssumption
        <3> QED BY <2>1, <3>1 DEF PatchStep, PatchFails, WritePatch
    <2>2. CASE \E p \in Patches : PatchStep(p) \/ PatchFails(p)
        BY <2>1, <2>2
    <2>3. CASE ~\E p \in Patches : PatchStep(p) \/ PatchFails(p)
        BY <2>3 DEF AdminNext, FindVisibleOrder, EmitCarried, ScanVisible, ExpireLoaded,
                    DeleteOrder, adminVars, rowVars, allVars
    <2> QED BY <2>2, <2>3
<1> QED BY <1>1, <1>2, <1>3, <1>4, <1>5, <1>6

\* Of all steps that write a status, only the save of a PATCH takes an order that was
\* paid at Stripe out of PAID.
LEMMA NextLeaves ==
    ASSUME AdminInv, AllowedInv, [AdminNext]_allVars,
           NEW o \in Orders, status[o] = "PAID", status'[o] # "PAID", session[o] = "paid"
    PROVE  \E p \in Patches :
              /\ WritePatch(p)
              /\ patch[p].order = o
              /\ patch[p].seen # "PAID" \/ status'[o] \in {"CANCELLED", "REFUNDED"}
<1> USE DEF AdminInv, AdminTypeOK, TypeOK
<1>1. req[o] = "answered"
    BY DEF RequestInv
<1>2. ASSUME BlindStep PROVE status'[o] = "PAID"
    <2>1. ASSUME NEW u \in Orders, Reserve(u) PROVE status'[o] = "PAID"
        BY <2>1, <1>1 DEF Reserve, UpdateStatus
    <2>2. ASSUME NEW u \in Orders, MarkFailed(u) PROVE status'[o] = "PAID"
        BY <2>2, <1>1 DEF MarkFailed, UpdateStatus
    <2>3. ASSUME MarkPaid PROVE status'[o] = "PAID"
        BY <2>3 DEF MarkPaid, UpdateStatus, QueueInv, Jobs, OrderOf
    <2>4. \/ UNCHANGED status \/ MarkPaid
          \/ \E u \in Orders : Reserve(u) \/ MarkFailed(u)
        BY <1>2 DEF BlindStep, HandlerStep, CheckStock, ReserveRefused, OpenSession, SaveSession,
                    HandlerFails, ReturnStock, Pay, DeliverWebhook, TakeJob, FinishJob, JobFails,
                    Age, ExpireFails
    <2> QED BY <2>1, <2>2, <2>3, <2>4
<1>3. ASSUME NEW s \in Sweeps, NEW u \in Orders, ExpireLoaded(s, u) PROVE status'[o] = "PAID"
    BY <1>3 DEF ExpireLoaded, ExpireOrderOf, UpdateStatus
<1>4. \E p \in Patches : WritePatch(p)
    BY <1>2, <1>3
       DEF AdminNext, PatchStep, FindVisibleOrder, FindOrderAs, EmitCarried, EmitTicketsOf,
           ScanVisible, ScanFrom, CrashAll, Crash, ReadForPatch, ComparePatch, PatchFails,
           DeleteOrder,
           allVars, vars
<1> PICK p \in Patches : WritePatch(p)
    BY <1>4
<1>5. /\ patch[p].at = "compared"
      /\ status' = [status EXCEPT ![patch[p].order] = Saved(patch[p]).status]
    BY DEF WritePatch, UpdateStatus
<1>6. patch[p].order = o /\ status'[o] = Saved(patch[p]).status
    BY <1>5
<1>8. status'[o] = patch[p].entity.status
    <2>1. Saved(patch[p]).status \in {patch[p].entity.status, status[o]}
        BY <1>5, <1>6, SavedTypes
    <2> QED BY <1>6, <2>1
<1>7. patch[p].seen = "PAID" => patch[p].entity.status \in {"PAID", "CANCELLED", "REFUNDED"}
    BY <1>5 DEF AllowedInv, Allows
<1> QED BY <1>6, <1>7, <1>8

\* With PATCHes among the steps a payment is still final for everybody else: only a
\* cancellation, a refund, or a PATCH that had read the order before its payment takes
\* an order that was paid at Stripe out of PAID.
THEOREM OnlyPatchesUndoPayments == AdminSpec => PaidLeaves
<1>1. AdminInit => AllowedInv
    BY DEF AdminInit, AllowedInv
<1>2. AdminInv /\ AllowedInv /\ [AdminNext]_allVars
      => [\A o \in Orders :
             status[o] = "PAID" /\ status'[o] # "PAID" /\ session[o] = "paid" =>
                 \E p \in Patches :
                     /\ WritePatch(p)
                     /\ patch[p].order = o
                     /\ patch[p].seen # "PAID" \/ status'[o] \in {"CANCELLED", "REFUNDED"}]_allVars
    BY NextLeaves
<1> QED BY <1>1, <1>2, NextAllowed, AlwaysAdmin, PTL DEF AdminSpec, PaidLeaves
=============================================================================
