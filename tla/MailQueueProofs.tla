-------------------------- MODULE MailQueueProofs --------------------------
(***************************************************************************)
(* Theorems about MailQueue, for any calls, tickets, attempts and restarts.*)
(***************************************************************************)
EXTENDS MailQueue, TLAPS

USE BatchAssumption, AttemptsAssumption, NoTicketAssumption

\* The inductive invariant.
IInv == TypeOK /\ FreshInv /\ BudgetInv /\ MailsBounded /\ CompletedIsMailed

LEMMA InitIInv == Init => IInv
BY DEF Init, IInv, TypeOK, FreshInv, BudgetInv, Spent, MailsBounded,
       CompletedIsMailed, JobStates, WorkerSteps

\* A step of a call touches no e-mail: the job it adds has spent nothing.
LEMMA CallKeepsIInv ==
    ASSUME IInv,
           \/ \E b \in Batches : SaveTickets(b) \/ SaveFails(b)
           \/ CallStep
    PROVE  IInv'
<1> USE DEF IInv, TypeOK, FreshInv, BudgetInv, Spent, MailsBounded,
            CompletedIsMailed, JobStates, WorkerSteps, gone, calls
<1>1. ASSUME NEW b \in Batches, SaveTickets(b) PROVE IInv'
    BY <1>1 DEF SaveTickets, TicketsOf
<1>2. ASSUME NEW b \in Batches, SaveFails(b) PROVE IInv'
    BY <1>2 DEF SaveFails
<1>3. ASSUME NEW t \in Tickets, QueueMail(t) PROVE IInv'
    BY <1>3 DEF QueueMail
<1>4. ASSUME NEW t \in Tickets, QueueFails(t) PROVE IInv'
    BY <1>4 DEF QueueFails
<1>5. ASSUME NEW b \in Batches, Return(b) PROVE IInv'
    BY <1>5 DEF Return, TicketsOf
<1> QED BY <1>1, <1>2, <1>3, <1>4, <1>5 DEF CallStep

\* A step of the worker: what it sends is spent when the attempt ends.
LEMMA WorkerKeepsIInv ==
    ASSUME IInv, (\E t \in Tickets : TakeMail(t)) \/ WorkerStep
    PROVE  IInv'
<1> USE DEF IInv, TypeOK, FreshInv, BudgetInv, Spent, MailsBounded,
            CompletedIsMailed, JobStates, WorkerSteps, gone, calls
<1>1. ASSUME NEW t \in Tickets, TakeMail(t) PROVE IInv'
    BY <1>1 DEF TakeMail
<1>2. CASE FindTicket
    BY <1>2 DEF FindTicket, Complete, Idle
<1>3. CASE SendMail
    BY <1>3 DEF SendMail
<1>4. CASE FinishMail
    BY <1>4 DEF FinishMail, Complete, Idle
<1>5. CASE MailBroken
    BY <1>5 DEF MailBroken, FailJob, Idle
<1>6. CASE MailFails
    BY <1>6 DEF MailFails, FailJob, Idle
<1> QED BY <1>1, <1>2, <1>3, <1>4, <1>5, <1>6 DEF WorkerStep

\* Deleted rows and a restart; the stall pays for what was sent before it.
LEMMA DisturbanceKeepsIInv ==
    ASSUME IInv,
           \/ \E b \in Batches : DeleteOwner(b) \/ DeleteEvent(b)
           \/ Crash
           \/ UNCHANGED vars
    PROVE  IInv'
<1> USE DEF IInv, TypeOK, FreshInv, BudgetInv, Spent, MailsBounded,
            CompletedIsMailed, JobStates, WorkerSteps, gone, calls
<1>1. ASSUME NEW b \in Batches, DeleteOwner(b) PROVE IInv'
    BY <1>1 DEF DeleteOwner
<1>2. ASSUME NEW b \in Batches, DeleteEvent(b) PROVE IInv'
    BY <1>2 DEF DeleteEvent
<1>3. CASE Crash
    BY <1>3 DEF Crash, Stall, Idle
<1>4. CASE UNCHANGED vars
    BY <1>4 DEF vars
<1> QED BY <1>1, <1>2, <1>3, <1>4

LEMMA AlwaysIInv == Spec => []IInv
<1>1. IInv /\ [Next]_vars => IInv'
    BY CallKeepsIInv, WorkerKeepsIInv, DisturbanceKeepsIInv DEF Next
<1> QED BY <1>1, InitIInv, PTL DEF Spec

-----------------------------------------------------------------------------

\* Every variable keeps its type; the active job is the worker's.
THEOREM MailTypeCorrect == Spec => []TypeOK
<1>1. IInv => TypeOK
    BY DEF IInv
<1> QED BY <1>1, AlwaysIInv, PTL

\* No ticket is mailed more often than its attempts and its one stall allow
\* (DispatchTicketEmailUseCase, TicketEmailProcessor).
THEOREM MailedWithinAttempts == Spec => []MailsBounded
<1>1. IInv => MailsBounded
    BY DEF IInv
<1> QED BY <1>1, AlwaysIInv, PTL

\* No job completes without its e-mail, unless the owner is gone
\* (TicketEmailProcessor.process).
THEOREM CompletionMeansMailed == Spec => []CompletedIsMailed
<1>1. IInv => CompletedIsMailed
    BY DEF IInv
<1> QED BY <1>1, AlwaysIInv, PTL
=============================================================================
